---- MODULE Spec2Model ----
(***************************************************************************)
(* Model of the check framework of data_migration_validation_tool:         *)
(* BaseCheck's config validation and table-name extraction, the five       *)
(* concrete checks, and the SQLAlchemyDatasource operations they call.     *)
(*                                                                         *)
(* A Python str is a sequence of tokens (a token is a TLA+ string that     *)
(* stands for one or more characters); None is the value NONE.  A dict is  *)
(* a function whose DOMAIN is its key set.  A pandas DataFrame is the      *)
(* sequence of its rows, each row a record.  A float ratio a / b is kept   *)
(* as the exact fraction [num |-> a, den |-> b].  The @typechecked         *)
(* decorators accept every argument the calls below are given, and reject  *)
(* a returned value that is not of the declared return type.               *)
(*                                                                         *)
(* Spec runs one check or one BaseCheck static method.  SpecRegistry is    *)
(* the two registries under sequences of register_* and get_* calls.       *)
(* SpecDatasource calls one SQLAlchemyDatasource operation directly.       *)
(* SpecBigQuery calls one of the two table-name functions of a             *)
(* BigQueryDatasource.                                                     *)
(***************************************************************************)
EXTENDS Integers, Sequences, FiniteSets, TLC

VARIABLES
    pc,               \* "idle" before a call, "done" once the call has ended
    op,               \* the operation that was called
    query_config,     \* the query_config argument (NONE where the call takes none)
    check_config,     \* the check_config argument
    required_params,  \* the effective required_params of a direct validate_* call
    omitted,          \* TRUE iff that call left required_params to its default
    rows,             \* the column values of the relation the backend holds
    events,           \* the calls made during the operation, in order
    outcome,          \* how the call ended: a returned value or a raised exception
    args,             \* the arguments of a direct call of a datasource or registry function
    backend,          \* how the backend behaves during the call
    DATA_SOURCES,     \* the datasource registry: datasource type -> factory
    DATA_CHECKS       \* the check registry: check name -> factory

vars == <<pc, op, query_config, check_config, required_params, omitted,
          rows, events, outcome, args, backend, DATA_SOURCES, DATA_CHECKS>>

\* Python's None, as a value comparable with a str: no str holds this token
NONE == <<"<None>">>

(***************************************************************************)
(* Bounds of the model.                                                    *)
(***************************************************************************)
MaxRows == 3
MaxGroups == 2
MaxNameLen == 4
MaxIdLen == 2

Values == {1, 2, 3}

(***************************************************************************)
(* Outcomes of a call.                                                     *)
(***************************************************************************)
Return(v) == [kind |-> "return", none |-> FALSE, value |-> v]

\* a call that returns None
ReturnNone == [kind |-> "return", none |-> TRUE, value |-> NONE]

Raise(exc, msg) == [kind |-> "raise", exc |-> exc, msg |-> msg]

Raised(o) == o.kind = "raise"

(***************************************************************************)
(* BaseCheck.validate_query_config / validate_check_config.                *)
(***************************************************************************)
\* faulty variant: a group counts only when all of its keys are present
AllParamsIn(config, required_param) ==
    \A i \in 1..Len(required_param) : required_param[i] \in DOMAIN config

\* any([param in config for param in required_param])
AnyParamIn(config, required_param) ==
    \E i \in 1..Len(required_param) : required_param[i] \in DOMAIN config

\* the for loop: the index of the first group that raises, 0 when none does
RECURSIVE FirstUnsatisfied(_, _, _)
FirstUnsatisfied(config, groups, i) ==
    IF i > Len(groups) THEN 0
    ELSE IF AnyParamIn(config, groups[i]) THEN FirstUnsatisfied(config, groups, i + 1)
    ELSE i

DefaultRequiredParams == << <<"datasource">>, <<"table_name", "query">> >>

QueryConfigMessage(required_param) ==
    [text |-> "Query Config should have any one of the Params ", params |-> required_param]

CheckConfigMessage(required_param) ==
    [text |-> "Check Config should have any one of the Params ", params |-> required_param]

validate_query_config(config, groups) ==
    LET i == FirstUnsatisfied(config, groups, 1) IN
    IF i = 0 THEN ReturnNone
    ELSE Raise("InvalidQueryConfigException", QueryConfigMessage(groups[i]))

validate_check_config(config, groups) ==
    LET i == FirstUnsatisfied(config, groups, 1) IN
    IF i = 0 THEN ReturnNone
    ELSE Raise("InvalidCheckConfigException", CheckConfigMessage(groups[i]))

(***************************************************************************)
(* BaseCheck.extract_table_name.                                           *)
(***************************************************************************)
\* faulty variant: an empty table_name is passed over in favour of the query
extract_table_name_truthy(config) ==
    IF "table_name" \in DOMAIN config /\ config["table_name"] # <<>>
    THEN Return(config["table_name"])
    ELSE IF "query" \in DOMAIN config
         THEN Return(<<"(">> \o config["query"] \o <<")">>)
    ELSE Raise("InvalidQueryConfigException",
               [text |-> "Query Config should have table_name or query.", params |-> <<>>])

extract_table_name(config) ==
    IF "table_name" \in DOMAIN config THEN Return(config["table_name"])
    ELSE IF "query" \in DOMAIN config
         THEN Return(<<"(">> \o config["query"] \o <<")">>)
    ELSE Raise("InvalidQueryConfigException",
               [text |-> "Query Config should have table_name or query.", params |-> <<>>])

(***************************************************************************)
(* Python str helpers.                                                     *)
(***************************************************************************)
Whitespace == {" ", "\t"}

\* s.strip() == ""
StripIsEmpty(s) == \A i \in 1..Len(s) : s[i] \in Whitespace

\* bool(s) for an Optional[str]
Truthy(s) == s # NONE /\ s # <<>>

\* faulty variant: a whitespace-only str is not taken as blank
IsBlankNoStrip(s) == ~Truthy(s)

\* (not s) or s.strip() == ""
IsBlank(s) == ~Truthy(s) \/ StripIsEmpty(s)

Drop(s, n) == SubSeq(s, n + 1, Len(s))

Take(s, n) == SubSeq(s, 1, n)

\* the index of the first occurrence of token tok in s, 0 when there is none
Pos(s, tok) ==
    IF \E i \in 1..Len(s) : s[i] = tok
    THEN CHOOSE i \in 1..Len(s) : s[i] = tok /\ \A j \in 1..(i - 1) : s[j] # tok
    ELSE 0

(***************************************************************************)
(* The trace of a call: one event per call made, in order.                 *)
(***************************************************************************)
Ev(call, table_name, column_name, query, stmt) ==
    [call |-> call, table_name |-> table_name, column_name |-> column_name,
     query |-> query, stmt |-> stmt]

Step(call) == Ev(call, NONE, NONE, NONE, NONE)

DatasourceOps == {"load_data", "get_table_count", "get_non_null_value_count",
                  "get_unique_values", "get_unique_value_count"}

\* the statements handed to the backend, in order
RECURSIVE SentStatements(_)
SentStatements(evs) ==
    IF evs = <<>> THEN <<>>
    ELSE IF Head(evs).call = "read_sql"
         THEN <<Head(evs).stmt>> \o SentStatements(Tail(evs))
    ELSE SentStatements(Tail(evs))

\* the datasource operations invoked, in order
RECURSIVE DatasourceCalls(_)
DatasourceCalls(evs) ==
    IF evs = <<>> THEN <<>>
    ELSE IF Head(evs).call \in DatasourceOps
         THEN <<Head(evs).call>> \o DatasourceCalls(Tail(evs))
    ELSE DatasourceCalls(Tail(evs))

(***************************************************************************)
(* The backend behind pd.read_sql.  It holds one relation with the single  *)
(* column KnownColumn, whose values are `rel`; the table KnownTable and    *)
(* the query KnownQuery both denote it.  A derived table may carry the     *)
(* alias " src" or none.  Any other statement is rejected.                 *)
(***************************************************************************)
KnownTable == <<"t">>

KnownQuery == <<"q">>

KnownColumn == <<"c">>

Literals == 0..4

SqlError == Raise("BackendError", "statement rejected")

ConnectionError == Raise("BackendError", "execution failed")

RefOk(ref) ==
    \/ ref = KnownTable
    \/ ref = <<"(">> \o KnownQuery \o <<")">>
    \/ ref = <<"(">> \o KnownQuery \o <<")", " src">>

IsLiteral(tok) == \E n \in Literals : ToString(n) = tok

ParseLiteral(tok) == CHOOSE n \in Literals : ToString(n) = tok

Compare(v, cmp, n) ==
    CASE cmp = " >= " -> v >= n
      [] cmp = " <= " -> v <= n
      [] cmp = " > " -> v > n
      [] cmp = " < " -> v < n

Comparators == {" >= ", " <= ", " > ", " < "}

\* <col> <cmp> <literal>
TermOk(term) ==
    /\ Len(term) = Len(KnownColumn) + 2
    /\ Take(term, Len(KnownColumn)) = KnownColumn
    /\ term[Len(term) - 1] \in Comparators
    /\ IsLiteral(term[Len(term)])

TermHolds(term, v) == Compare(v, term[Len(term) - 1], ParseLiteral(term[Len(term)]))

RelMin(rel) ==
    IF rel = <<>> THEN NONE
    ELSE CHOOSE m \in {rel[i] : i \in 1..Len(rel)} : \A i \in 1..Len(rel) : m <= rel[i]

RelMax(rel) ==
    IF rel = <<>> THEN NONE
    ELSE CHOOSE m \in {rel[i] : i \in 1..Len(rel)} : \A i \in 1..Len(rel) : m >= rel[i]

\* SELECT MIN(<col>) AS min, MAX(<col>) AS max FROM <ref>
ExecuteMinMax(rel, stmt) ==
    LET rest == Tail(stmt)
        p1 == Pos(rest, ") AS min, MAX(")
        p2 == Pos(rest, ") AS max FROM ")
    IN  IF /\ p1 > 0 /\ p2 > p1
           /\ Take(rest, p1 - 1) = KnownColumn
           /\ SubSeq(rest, p1 + 1, p2 - 1) = KnownColumn
           /\ RefOk(Drop(rest, p2))
        THEN Return(<<[min |-> RelMin(rel), max |-> RelMax(rel)]>>)
        ELSE SqlError

\* SELECT COUNT(1) AS matching_record_count FROM <ref> WHERE <term> AND <term>
ExecuteMatching(rel, stmt) ==
    LET rest == Tail(stmt)
        w == Pos(rest, " WHERE ")
        cond == Drop(rest, w)
        a == Pos(cond, " AND ")
        left == Take(cond, a - 1)
        right == SubSeq(cond, a + 1, Len(cond) - 1)
    IN  IF /\ w > 0 /\ a > 0
           /\ RefOk(Take(rest, w - 1))
           /\ cond[Len(cond)] = " "
           /\ TermOk(left) /\ TermOk(right)
        THEN Return(<<[matching_record_count |->
                 Cardinality({i \in 1..Len(rel) :
                     TermHolds(left, rel[i]) /\ TermHolds(right, rel[i])})]>>)
        ELSE SqlError

\* SELECT COUNT(*) AS cnt FROM <ref> [WHERE <col> IS NOT NULL]
ExecuteCount(rel, stmt) ==
    LET rest == Tail(stmt)
        w == Pos(rest, " WHERE ")
    IN  IF w = 0
        THEN IF RefOk(rest) THEN Return(<<[cnt |-> Len(rel)]>>) ELSE SqlError
        ELSE IF RefOk(Take(rest, w - 1))
                /\ Drop(rest, w) = KnownColumn \o <<" IS NOT NULL">>
             THEN Return(<<[cnt |-> Len(rel)]>>)
             ELSE SqlError

\* SELECT DISTINCT <col> FROM <ref>: the distinct values, in the backend's order
ExecuteDistinct(rel, stmt, order) ==
    LET rest == Tail(stmt)
        f == Pos(rest, " FROM ")
        Present(v) == \E i \in 1..Len(rel) : rel[i] = v
        vals == SelectSeq(order, Present)
    IN  IF f > 0 /\ Take(rest, f - 1) = KnownColumn /\ RefOk(Drop(rest, f))
        THEN Return([i \in 1..Len(vals) |-> (KnownColumn :> vals[i])])
        ELSE SqlError

\* SELECT * FROM <ref>, where <ref> may be a derived table over an aggregate
ExecuteSelectAll(rel, stmt) ==
    LET ref == Tail(stmt)
        n == Len(ref)
        derived == n >= 4 /\ ref[1] = "(" /\ ref[n - 1] = ")" /\ ref[n] = " src"
        inner == SubSeq(ref, 2, n - 2)
    IN  IF derived /\ inner[1] = "SELECT MIN(" THEN ExecuteMinMax(rel, inner)
        ELSE IF derived /\ inner[1] = "SELECT COUNT(1) AS matching_record_count FROM "
             THEN ExecuteMatching(rel, inner)
        ELSE IF RefOk(ref)
             THEN Return([i \in 1..Len(rel) |-> (KnownColumn :> rel[i])])
        ELSE SqlError

Execute(rel, stmt, order) ==
    IF stmt = <<>> THEN SqlError
    ELSE CASE stmt[1] = "SELECT * FROM " -> ExecuteSelectAll(rel, stmt)
           [] stmt[1] = "SELECT COUNT(*) AS cnt FROM " -> ExecuteCount(rel, stmt)
           [] stmt[1] = "SELECT DISTINCT " -> ExecuteDistinct(rel, stmt, order)
           [] OTHER -> SqlError

\* the result set the backend hands back: without rows when norows
ResultSet(r, norows) == IF norows /\ ~Raised(r) THEN Return(<<>>) ELSE r

\* e.fail: the backend fails to execute this statement; e.order: the order in
\* which the backend lists distinct values; e.norows: the backend executes the
\* statement and hands back a result set without rows
read_sql(rel, stmt, e) ==
    IF e.fail THEN ConnectionError ELSE ResultSet(Execute(rel, stmt, e.order), e.norows)

(***************************************************************************)
(* SQLAlchemyDatasource.  Every operation yields [out, ev]: its outcome    *)
(* and the events it produced, its own call first.                         *)
(***************************************************************************)
TableOrQueryError ==
    Raise("ValueError",
          "Either table_name or query is required. Both should not be None or Empty")

ColumnNameError == Raise("ValueError", "column_name should not be None or empty")

\* faulty variant: the query is preferred when both are given
FromRefQueryFirst(table_name, query) ==
    IF Truthy(query) THEN <<"(">> \o query \o <<")", " src">> ELSE table_name

\* table_name if table_name else f"({query}) src"
FromRef(table_name, query) ==
    IF Truthy(table_name) THEN table_name ELSE <<"(">> \o query \o <<")", " src">>

\* with self.engine.connect() as conn: try: df = pd.read_sql(stmt, conn)
\* except Exception as e: print(e); raise e
WithConnection(rel, stmt, env) ==
    [out |-> read_sql(rel, stmt, env),
     ev |-> <<Step("engine.connect"), Ev("read_sql", NONE, NONE, NONE, stmt),
              Step("connection.close")>>]

load_data(rel, table_name, query, env) ==
    LET call == Ev("load_data", table_name, NONE, query, NONE) IN
    IF IsBlank(table_name) /\ IsBlank(query)
    THEN [out |-> TableOrQueryError, ev |-> <<call>>]
    ELSE LET r == WithConnection(rel,
                      <<"SELECT * FROM ">> \o FromRef(table_name, query), env)
         IN  [out |-> IF Raised(r.out) THEN r.out
                      ELSE IF r.out.value # <<>> THEN Return(r.out.value)
                      ELSE ReturnNone,
              ev |-> <<call>> \o r.ev]

\* faulty variant: a backend error is swallowed and 0 returned
get_table_count_swallow(rel, table_name, query, env) ==
    LET call == Ev("get_table_count", table_name, NONE, query, NONE) IN
    IF IsBlank(table_name) /\ IsBlank(query)
    THEN [out |-> TableOrQueryError, ev |-> <<call>>]
    ELSE LET r == WithConnection(rel,
                      <<"SELECT COUNT(*) AS cnt FROM ">> \o FromRef(table_name, query), env)
         IN  [out |-> Return(IF ~Raised(r.out) /\ r.out.value # <<>>
                             THEN r.out.value[1].cnt ELSE 0),
              ev |-> <<call>> \o r.ev]

get_table_count(rel, table_name, query, env) ==
    LET call == Ev("get_table_count", table_name, NONE, query, NONE) IN
    IF IsBlank(table_name) /\ IsBlank(query)
    THEN [out |-> TableOrQueryError, ev |-> <<call>>]
    ELSE LET r == WithConnection(rel,
                      <<"SELECT COUNT(*) AS cnt FROM ">> \o FromRef(table_name, query), env)
         IN  [out |-> IF Raised(r.out) THEN r.out
                      ELSE Return(IF r.out.value # <<>> THEN r.out.value[1].cnt ELSE 0),
              ev |-> <<call>> \o r.ev]

get_non_null_value_count(rel, table_name, column_name, query, env) ==
    LET call == Ev("get_non_null_value_count", table_name, column_name, query, NONE) IN
    IF IsBlank(table_name) /\ IsBlank(query)
    THEN [out |-> TableOrQueryError, ev |-> <<call>>]
    ELSE IF IsBlank(column_name)
    THEN [out |-> ColumnNameError, ev |-> <<call>>]
    ELSE LET r == WithConnection(rel,
                      <<"SELECT COUNT(*) AS cnt FROM ">> \o FromRef(table_name, query)
                          \o <<" WHERE ">> \o column_name \o <<" IS NOT NULL">>, env)
         IN  [out |-> IF Raised(r.out) THEN r.out
                      ELSE Return(IF r.out.value # <<>> THEN r.out.value[1].cnt ELSE 0),
              ev |-> <<call>> \o r.ev]

\* faulty variant: an empty result set gives None
get_unique_values_none(rel, table_name, column_name, query, env) ==
    LET call == Ev("get_unique_values", table_name, column_name, query, NONE) IN
    IF IsBlank(table_name) /\ IsBlank(query)
    THEN [out |-> TableOrQueryError, ev |-> <<call>>]
    ELSE IF IsBlank(column_name)
    THEN [out |-> ColumnNameError, ev |-> <<call>>]
    ELSE LET r == WithConnection(rel,
                      <<"SELECT DISTINCT ">> \o column_name \o <<" FROM ">>
                          \o FromRef(table_name, query), env)
             df == r.out.value
         IN  [out |-> IF Raised(r.out) THEN r.out
                      ELSE IF df # <<>>
                      THEN Return([i \in 1..Len(df) |-> df[i][column_name]])
                      ELSE ReturnNone,
              ev |-> <<call>> \o r.ev]

get_unique_values(rel, table_name, column_name, query, env) ==
    LET call == Ev("get_unique_values", table_name, column_name, query, NONE) IN
    IF IsBlank(table_name) /\ IsBlank(query)
    THEN [out |-> TableOrQueryError, ev |-> <<call>>]
    ELSE IF IsBlank(column_name)
    THEN [out |-> ColumnNameError, ev |-> <<call>>]
    ELSE LET r == WithConnection(rel,
                      <<"SELECT DISTINCT ">> \o column_name \o <<" FROM ">>
                          \o FromRef(table_name, query), env)
             df == r.out.value
         IN  [out |-> IF Raised(r.out) THEN r.out
                      ELSE Return(IF df # <<>>
                                  THEN [i \in 1..Len(df) |-> df[i][column_name]]
                                  ELSE <<>>),
              ev |-> <<call>> \o r.ev]

get_unique_value_count(rel, table_name, column_name, query, env) ==
    LET call == Ev("get_unique_value_count", table_name, column_name, query, NONE)
        r == get_unique_values(rel, table_name, column_name, query, env)
    IN  [out |-> IF Raised(r.out) THEN r.out ELSE Return(Len(r.out.value)),
         ev |-> <<call>> \o r.ev]

(***************************************************************************)
(* Arithmetic of the checks.  A float is kept as an exact fraction.        *)
(***************************************************************************)
Frac(a, b) == [num |-> a, den |-> b]

\* cc.get("threshold", 1)
DefaultThreshold == Frac(1, 1)

FracLess(x, y) == x.num * y.den < y.num * x.den

\* x * 100
Times100(x) == Frac(x.num * 100, x.den)

\* faulty variant: truncation to two decimals
Round2Truncate(x) == Frac((x.num * 100) \div x.den, 100)

\* round(x, 2): the nearest multiple of 1/100, a tie going to the even one
Round2(x) ==
    LET n == x.num * 100
        q == n \div x.den
        r == n % x.den
    IN  Frac(IF 2 * r < x.den THEN q
             ELSE IF 2 * r > x.den THEN q + 1
             ELSE IF q % 2 = 0 THEN q ELSE q + 1, 100)

ZeroDivision == Raise("ZeroDivisionError", "division by zero")

SeqToSet(s) == {s[i] : i \in 1..Len(s)}

\* sorted(S) for a set S of integers
RECURSIVE SortedSet(_)
SortedSet(S) ==
    IF S = {} THEN <<>>
    ELSE LET m == CHOOSE x \in S : \A y \in S : x <= y
         IN  <<m>> \o SortedSet(S \ {m})

\* sorted(s) for a list s of integers: insertion into the sorted prefix
RECURSIVE Insert(_, _)
Insert(x, s) ==
    IF s = <<>> THEN <<x>>
    ELSE IF x <= Head(s) THEN <<x>> \o s
    ELSE <<Head(s)>> \o Insert(x, Tail(s))

RECURSIVE Sorted(_)
Sorted(s) == IF s = <<>> THEN <<>> ELSE Insert(Head(s), Sorted(Tail(s)))

\* the env of the k-th datasource operation of a run
EnvAt(e, k) == [fail |-> e.failAt = k, order |-> e.order, norows |-> FALSE]

(***************************************************************************)
(* The concrete checks.  run yields [out, ev] like a datasource operation. *)
(***************************************************************************)
\* faulty variant: the datasource group is checked last
ColumnRequiredParamsReordered ==
    << <<"table_name", "query">>, <<"column_name">>, <<"datasource">> >>

ColumnRequiredParams ==
    << <<"datasource">>, <<"table_name", "query">>, <<"column_name">> >>

\* cc.get("threshold", 1)
Threshold(cc) == IF "threshold" \in DOMAIN cc THEN cc["threshold"] ELSE DefaultThreshold

Status(failed) == IF failed THEN "Failed" ELSE "Success"

\* faulty variant: the status is inverted
EmptyTableResultInverted(table_count) ==
    "empty_table_check" :>
        [status |-> Status(table_count # 0), record_count |-> table_count]

EmptyTableResult(table_count) ==
    "empty_table_check" :>
        [status |-> Status(table_count = 0), record_count |-> table_count]

EmptyTableCheck_run(qc, cc, rel, env) ==
    LET v == validate_query_config(qc, DefaultRequiredParams)
        e1 == <<Step("validate_query_config")>>
        t == extract_table_name(qc)
        e2 == e1 \o <<Step("extract_table_name")>>
        c == get_table_count(rel, t.value, NONE, EnvAt(env, 1))
        e3 == e2 \o c.ev
    IN  IF Raised(v) THEN [out |-> v, ev |-> e1]
        ELSE IF Raised(t) THEN [out |-> t, ev |-> e2]
        ELSE IF Raised(c.out) THEN [out |-> c.out, ev |-> e3]
        ELSE [out |-> Return(EmptyTableResult(c.out.value)), ev |-> e3]

\* faulty variant: an empty table fails whatever the expected count
TableCountResultZeroFails(table_count, count) ==
    "table_count_check" :>
        [status |-> Status(table_count # count \/ table_count = 0),
         actual_table_count |-> table_count,
         expected_table_count |-> count]

TableCountResult(table_count, count) ==
    "table_count_check" :>
        [status |-> Status(table_count # count),
         actual_table_count |-> table_count,
         expected_table_count |-> count]

\* faulty variant: check_config is validated only after the row count was fetched
TableCountCheck_run_late(qc, cc, rel, env) ==
    LET v == validate_query_config(qc, DefaultRequiredParams)
        e1 == <<Step("validate_query_config")>>
        t == extract_table_name(qc)
        e2 == e1 \o <<Step("extract_table_name")>>
        c == get_table_count(rel, t.value, NONE, EnvAt(env, 1))
        e3 == e2 \o c.ev
        w == validate_check_config(cc, << <<"count">> >>)
        e4 == e3 \o <<Step("validate_check_config")>>
    IN  IF Raised(v) THEN [out |-> v, ev |-> e1]
        ELSE IF Raised(t) THEN [out |-> t, ev |-> e2]
        ELSE IF Raised(c.out) THEN [out |-> c.out, ev |-> e3]
        ELSE IF Raised(w) THEN [out |-> w, ev |-> e4]
        ELSE [out |-> Return(TableCountResult(c.out.value, cc["count"])), ev |-> e4]

TableCountCheck_run(qc, cc, rel, env) ==
    LET v == validate_query_config(qc, DefaultRequiredParams)
        e1 == <<Step("validate_query_config")>>
        w == validate_check_config(cc, << <<"count">> >>)
        e2 == e1 \o <<Step("validate_check_config")>>
        t == extract_table_name(qc)
        e3 == e2 \o <<Step("extract_table_name")>>
        c == get_table_count(rel, t.value, NONE, EnvAt(env, 1))
        e4 == e3 \o c.ev
    IN  IF Raised(v) THEN [out |-> v, ev |-> e1]
        ELSE IF Raised(w) THEN [out |-> w, ev |-> e2]
        ELSE IF Raised(t) THEN [out |-> t, ev |-> e3]
        ELSE IF Raised(c.out) THEN [out |-> c.out, ev |-> e4]
        ELSE [out |-> Return(TableCountResult(c.out.value, cc["count"])), ev |-> e4]

\* faulty variant: a ratio equal to the threshold fails
UniqueColumnValueResultLe(unique_value_count, table_count, threshold) ==
    LET unique_value_percentage == Frac(unique_value_count, table_count) IN
    "unique_column_value_check" :>
        [status |-> Status(~FracLess(threshold, unique_value_percentage)),
         expected_unique_value_count |-> unique_value_count,
         actual_unique_value_count |-> table_count,
         matching_percentage |-> Times100(unique_value_percentage),
         threshold |-> threshold]

UniqueColumnValueResult(unique_value_count, table_count, threshold) ==
    LET unique_value_percentage == Frac(unique_value_count, table_count) IN
    "unique_column_value_check" :>
        [status |-> Status(FracLess(unique_value_percentage, threshold)),
         expected_unique_value_count |-> unique_value_count,
         actual_unique_value_count |-> table_count,
         matching_percentage |-> Times100(unique_value_percentage),
         threshold |-> threshold]

\* faulty variant: the row count is fetched before the distinct count
UniqueColumnValueCheck_run_swapped(qc, cc, rel, env) ==
    LET v == validate_query_config(qc, ColumnRequiredParams)
        e1 == <<Step("validate_query_config")>>
        t == extract_table_name(qc)
        e2 == e1 \o <<Step("extract_table_name")>>
        c == get_table_count(rel, t.value, NONE, EnvAt(env, 1))
        e3 == e2 \o c.ev
        u == get_unique_value_count(rel, t.value, qc["column_name"], NONE, EnvAt(env, 2))
        e4 == e3 \o u.ev
    IN  IF Raised(v) THEN [out |-> v, ev |-> e1]
        ELSE IF Raised(t) THEN [out |-> t, ev |-> e2]
        ELSE IF Raised(c.out) THEN [out |-> c.out, ev |-> e3]
        ELSE IF Raised(u.out) THEN [out |-> u.out, ev |-> e4]
        ELSE IF c.out.value = 0 THEN [out |-> ZeroDivision, ev |-> e4]
        ELSE [out |-> Return(UniqueColumnValueResult(u.out.value, c.out.value,
                                                     Threshold(cc))),
              ev |-> e4]

UniqueColumnValueCheck_run(qc, cc, rel, env) ==
    LET v == validate_query_config(qc, ColumnRequiredParams)
        e1 == <<Step("validate_query_config")>>
        t == extract_table_name(qc)
        e2 == e1 \o <<Step("extract_table_name")>>
        u == get_unique_value_count(rel, t.value, qc["column_name"], NONE, EnvAt(env, 1))
        e3 == e2 \o u.ev
        c == get_table_count(rel, t.value, NONE, EnvAt(env, 2))
        e4 == e3 \o c.ev
    IN  IF Raised(v) THEN [out |-> v, ev |-> e1]
        ELSE IF Raised(t) THEN [out |-> t, ev |-> e2]
        ELSE IF Raised(u.out) THEN [out |-> u.out, ev |-> e3]
        ELSE IF Raised(c.out) THEN [out |-> c.out, ev |-> e4]
        ELSE IF c.out.value = 0 THEN [out |-> ZeroDivision, ev |-> e4]
        ELSE [out |-> Return(UniqueColumnValueResult(u.out.value, c.out.value,
                                                     Threshold(cc))),
              ev |-> e4]

\* the for loop counting the actual values found in the expected set
MatchingColumnCount(actual_column_values, expected_column_values) ==
    Cardinality({i \in 1..Len(actual_column_values) :
                    actual_column_values[i] \in expected_column_values})

BelongToSetResult(actual_column_values, expected_column_values, threshold) ==
    LET matching_percentage ==
            Frac(MatchingColumnCount(actual_column_values, expected_column_values),
                 Len(actual_column_values))
    IN  "check_column_value_belong_to_set" :>
            [status |-> Status(FracLess(matching_percentage, threshold)),
             actual_unique_values |-> Sorted(actual_column_values),
             expected_unique_values |-> SortedSet(expected_column_values),
             matching_percentage |-> Round2(Times100(matching_percentage)),
             threshold |-> threshold]

\* faulty variant: check_config is validated before query_config
CheckColumnValueBelongToSet_run_checkfirst(qc, cc, rel, env) ==
    LET w == validate_check_config(cc, << <<"column_value_set">> >>)
        e1 == <<Step("validate_check_config")>>
        v == validate_query_config(qc, ColumnRequiredParams)
        e2 == e1 \o <<Step("validate_query_config")>>
        t == extract_table_name(qc)
        e3 == e2 \o <<Step("extract_table_name")>>
        a == get_unique_values(rel, t.value, qc["column_name"], NONE, EnvAt(env, 1))
        e4 == e3 \o a.ev
    IN  IF Raised(w) THEN [out |-> w, ev |-> e1]
        ELSE IF Raised(v) THEN [out |-> v, ev |-> e2]
        ELSE IF Raised(t) THEN [out |-> t, ev |-> e3]
        ELSE IF Raised(a.out) THEN [out |-> a.out, ev |-> e4]
        ELSE IF Len(a.out.value) = 0 THEN [out |-> ZeroDivision, ev |-> e4]
        ELSE [out |-> Return(BelongToSetResult(a.out.value,
                                               SeqToSet(cc["column_value_set"]),
                                               Threshold(cc))),
              ev |-> e4]

CheckColumnValueBelongToSet_run(qc, cc, rel, env) ==
    LET v == validate_query_config(qc, ColumnRequiredParams)
        e1 == <<Step("validate_query_config")>>
        w == validate_check_config(cc, << <<"column_value_set">> >>)
        e2 == e1 \o <<Step("validate_check_config")>>
        t == extract_table_name(qc)
        e3 == e2 \o <<Step("extract_table_name")>>
        a == get_unique_values(rel, t.value, qc["column_name"], NONE, EnvAt(env, 1))
        e4 == e3 \o a.ev
    IN  IF Raised(v) THEN [out |-> v, ev |-> e1]
        ELSE IF Raised(w) THEN [out |-> w, ev |-> e2]
        ELSE IF Raised(t) THEN [out |-> t, ev |-> e3]
        ELSE IF Raised(a.out) THEN [out |-> a.out, ev |-> e4]
        ELSE IF Len(a.out.value) = 0 THEN [out |-> ZeroDivision, ev |-> e4]
        ELSE [out |-> Return(BelongToSetResult(a.out.value,
                                               SeqToSet(cc["column_value_set"]),
                                               Threshold(cc))),
              ev |-> e4]

\* f"SELECT MIN({column_name}) AS min, MAX({column_name}) AS max FROM {table_name}"
MinMaxQuery(table_name, column_name) ==
    <<"SELECT MIN(">> \o column_name \o <<") AS min, MAX(">> \o column_name
        \o <<") AS max FROM ">> \o table_name

\* faulty variant: the lower bound is exclusive
MatchingQueryExclusive(table_name, column_name, expected_column_range) ==
    <<"SELECT COUNT(1) AS matching_record_count FROM ">> \o table_name
        \o <<" WHERE ">> \o column_name
        \o <<" > ", ToString(expected_column_range["min"]), " AND ">> \o column_name
        \o <<" <= ", ToString(expected_column_range["max"]), " ">>

\* f"SELECT COUNT(1) AS matching_record_count FROM {table_name} WHERE {column_name}
\*   >= {expected_column_range['min']} AND {column_name} <= {expected_column_range['max']} "
MatchingQuery(table_name, column_name, expected_column_range) ==
    <<"SELECT COUNT(1) AS matching_record_count FROM ">> \o table_name
        \o <<" WHERE ">> \o column_name
        \o <<" >= ", ToString(expected_column_range["min"]), " AND ">> \o column_name
        \o <<" <= ", ToString(expected_column_range["max"]), " ">>

InRangeResult(actual_column_range, expected_column_range, matching_record_count, table_count, threshold) ==
    LET matching_percentage == Frac(matching_record_count, table_count) IN
    "check_column_value_to_be_in_range" :>
        [status |-> Status(FracLess(matching_percentage, threshold)),
         actual_column_range |-> actual_column_range,
         expected_column_range |-> expected_column_range,
         matching_percentage |-> Round2(Times100(matching_percentage)),
         threshold |-> threshold]

NoneHasNoToDict == Raise("AttributeError", "'NoneType' object has no attribute 'to_dict'")

KeyError(key) == Raise("KeyError", key)

CheckColumnValueToBeInRange_run(qc, cc, rel, env) ==
    LET v == validate_query_config(qc, ColumnRequiredParams)
        e1 == <<Step("validate_query_config")>>
        w == validate_check_config(cc, << <<"column_value_range">> >>)
        e2 == e1 \o <<Step("validate_check_config")>>
        t == extract_table_name(qc)
        e3 == e2 \o <<Step("extract_table_name")>>
        column_name == qc["column_name"]
        r == load_data(rel, NONE, MinMaxQuery(t.value, column_name), EnvAt(env, 1))
        e4 == e3 \o r.ev
        expected_column_range == cc["column_value_range"]
        m == load_data(rel, NONE,
                       MatchingQuery(t.value, column_name, expected_column_range),
                       EnvAt(env, 2))
        e5 == e4 \o m.ev
        c == get_table_count(rel, t.value, NONE, EnvAt(env, 3))
        e6 == e5 \o c.ev
    IN  IF Raised(v) THEN [out |-> v, ev |-> e1]
        ELSE IF Raised(w) THEN [out |-> w, ev |-> e2]
        ELSE IF Raised(t) THEN [out |-> t, ev |-> e3]
        ELSE IF Raised(r.out) THEN [out |-> r.out, ev |-> e4]
        ELSE IF r.out.none THEN [out |-> NoneHasNoToDict, ev |-> e4]
        ELSE IF "min" \notin DOMAIN expected_column_range
             THEN [out |-> KeyError("min"), ev |-> e4]
        ELSE IF "max" \notin DOMAIN expected_column_range
             THEN [out |-> KeyError("max"), ev |-> e4]
        ELSE IF Raised(m.out) THEN [out |-> m.out, ev |-> e5]
        ELSE IF m.out.none THEN [out |-> NoneHasNoToDict, ev |-> e5]
        ELSE IF Raised(c.out) THEN [out |-> c.out, ev |-> e6]
        ELSE IF c.out.value = 0 THEN [out |-> ZeroDivision, ev |-> e6]
        ELSE [out |-> Return(InRangeResult(r.out.value[1], expected_column_range,
                                 m.out.value[1].matching_record_count,
                                 c.out.value, Threshold(cc))),
              ev |-> e6]

(***************************************************************************)
(* The registries.  A registry maps a key to a factory; a factory is a     *)
(* class or a function, named here by its Python name.  A factory call     *)
(* yields [out, ev] like every other call.                                 *)
(***************************************************************************)
\* the event of invoking factory fn with arguments a
FactoryEv(fn, a) == [call |-> "factory", fn |-> fn, args |-> a]

\* the factories invoked, in order
FactoryCalls(evs) == SelectSeq(evs, LAMBDA e : e.call = "factory")

ValidConnection == <<"sqlite:///:memory:">>

\* a connection string create_engine cannot parse
InvalidConnection == <<"test">>

\* SQLAlchemyDatasource(datasource_name, connection_string)
SQLAlchemyDatasource_init(class, datasource_name, connection_string) ==
    IF connection_string = InvalidConnection
    THEN Raise("ArgumentError", connection_string)
    ELSE Return([class |-> class, name |-> datasource_name, type |-> "SQL",
                 connection_string |-> connection_string])

\* BaseDatasource(datasource_name, datasource_type)
BaseDatasource_init(datasource_name, datasource_type) ==
    Return([class |-> "BaseDatasource", name |-> datasource_name,
            type |-> datasource_type])

(***************************************************************************)
(* The operations left to subclasses: BaseDatasource's capabilities,       *)
(* BaseCheck.run and SQLAlchemyDatasource.get_schema.                      *)
(***************************************************************************)
NotImplemented ==
    Raise("NotImplementedError", "This method must be implemented by subclasses.")

\* faulty variant: the operation does nothing and returns None
BaseDatasource_load_data_noop(table_name) == ReturnNone

BaseDatasource_load_data(table_name) == NotImplemented

BaseDatasource_get_schema(table_name) == NotImplemented

BaseDatasource_get_table_count(table_name, query) == NotImplemented

BaseDatasource_get_non_null_value_count(table_name, column_name, query) == NotImplemented

BaseDatasource_get_unique_value_count(table_name, column_name, query) == NotImplemented

SQLAlchemyDatasource_get_schema(table_name) == NotImplemented

BaseCheck_run(qc, cc) == NotImplemented

(***************************************************************************)
(* BigQueryDatasource.                                                     *)
(***************************************************************************)
\* the token of the backtick character
Backtick == "<backtick>"

\* s.strip(chars): s without its leading and trailing tokens of chars
RECURSIVE LStrip(_, _)
LStrip(s, chars) ==
    IF s # <<>> /\ Head(s) \in chars THEN LStrip(Tail(s), chars) ELSE s

RECURSIVE RStrip(_, _)
RStrip(s, chars) ==
    IF s # <<>> /\ s[Len(s)] \in chars THEN RStrip(Take(s, Len(s) - 1), chars) ELSE s

Strip(s, chars) == RStrip(LStrip(s, chars), chars)

\* s.split(sep, maxsplit): at most maxsplit cuts, the rest stays in the last part
RECURSIVE Split(_, _, _)
Split(s, sep, maxsplit) ==
    LET p == Pos(s, sep) IN
    IF maxsplit = 0 \/ p = 0 THEN <<s>>
    ELSE <<Take(s, p - 1)>> \o Split(Drop(s, p), sep, maxsplit - 1)

\* s.replace(old, ""), old a single token
Remove(s, old) == SelectSeq(s, LAMBDA tok : tok # old)

\* BigQueryDatasource(datasource_name, connection_string)
BigQueryDatasource_init(datasource_name, connection_string) ==
    LET base == SQLAlchemyDatasource_init("BigQueryDatasource", datasource_name,
                                          connection_string)
        connections_split_parts == Split(Remove(connection_string, "bigquery://"), "/", 1)
    IN  IF Raised(base) THEN base
        ELSE Return([class |-> "BigQueryDatasource", name |-> datasource_name,
                     type |-> "SQL", connection_string |-> connection_string,
                     project_id |-> connections_split_parts[1],
                     dataset_id |-> IF Len(connections_split_parts) = 2
                                    THEN connections_split_parts[2] ELSE NONE])

InvalidTableName == Raise("ValueError", "invalid table name")

\* the decorator's check of a value returned under the annotation Tuple[str, str, str]
TypeCheckedTuple(t) ==
    IF \E i \in 1..Len(t) : t[i] = NONE
    THEN Raise("TypeCheckError", "return value is not a tuple of str")
    ELSE Return(t)

split_bigquery_table_name(self, table_name) ==
    IF StripIsEmpty(table_name) THEN InvalidTableName
    ELSE LET table_name_parts == Split(Strip(table_name, {Backtick}), ".", 2) IN
         CASE Len(table_name_parts) = 1 ->
                TypeCheckedTuple(<<self.project_id, self.dataset_id, table_name_parts[1]>>)
           [] Len(table_name_parts) = 2 ->
                TypeCheckedTuple(<<self.project_id, table_name_parts[1],
                                   table_name_parts[2]>>)
           [] Len(table_name_parts) = 3 ->
                TypeCheckedTuple(<<table_name_parts[1], table_name_parts[2],
                                   table_name_parts[3]>>)
           [] OTHER -> InvalidTableName

TableIdEmpty == Raise("ValueError", "table_id should not be empty")

\* str + None
ConcatNone == Raise("TypeError", "can only concatenate str (not \"NoneType\") to str")

\* faulty variant: the datasource's own project_id is used also when one is given
generate_bigquery_table_name_own(self, table_id, dataset_id, project_id) ==
    IF Strip(table_id, {" "}) = <<>> THEN TableIdEmpty
    ELSE IF self.dataset_id = NONE THEN ConcatNone
    ELSE Return(<<Backtick>> \o self.project_id \o <<".">>
                    \o (IF Truthy(dataset_id) THEN dataset_id ELSE self.dataset_id)
                    \o <<".">> \o table_id \o <<Backtick>>)

generate_bigquery_table_name(self, table_id, dataset_id, project_id) ==
    IF Strip(table_id, {" "}) = <<>> THEN TableIdEmpty
    ELSE IF ~Truthy(project_id) /\ Truthy(dataset_id)
    THEN Return(<<Backtick>> \o self.project_id \o <<".">> \o dataset_id \o <<".">>
                    \o table_id \o <<Backtick>>)
    ELSE IF ~Truthy(project_id) /\ ~Truthy(dataset_id)
    THEN IF self.dataset_id = NONE THEN ConcatNone
         ELSE Return(<<Backtick>> \o self.project_id \o <<".">> \o self.dataset_id \o <<".">>
                         \o table_id \o <<Backtick>>)
    ELSE IF Truthy(project_id) /\ Truthy(dataset_id)
    THEN Return(<<Backtick>> \o project_id \o <<".">> \o dataset_id \o <<".">>
                    \o table_id \o <<Backtick>>)
    ELSE Return(<<Backtick, Backtick>>)

\* SELECT COLUMN_NAME, DATA_TYPE FROM `p.d.INFORMATION_SCHEMA.COLUMNS`
\* WHERE TABLE_NAME = 't'
SchemaQuery(project_id, dataset_id, table_id) ==
    <<"SELECT COLUMN_NAME, DATA_TYPE FROM ", Backtick>> \o project_id \o <<".">>
        \o dataset_id \o <<".INFORMATION_SCHEMA.COLUMNS", Backtick,
                            " WHERE TABLE_NAME = '">> \o table_id \o <<"'">>

InvalidTableNameOf(table_name) ==
    Raise("ValueError", [text |-> "Invalid table_name: {}", table_name |-> table_name])

\* dict(df.to_dict("split")["data"]): column name -> data type
SchemaDict(columns) ==
    [c \in {columns[i][1] : i \in 1..Len(columns)} |->
        LET i == CHOOSE i \in 1..Len(columns) :
                    columns[i][1] = c /\ \A j \in (i + 1)..Len(columns) : columns[j][1] # c
        IN  columns[i][2]]

\* the decorator's check of a value returned under the annotation Dict[str, str]
TypeCheckedDict(v, is_dict) ==
    IF is_dict THEN Return(v)
    ELSE Raise("TypeCheckError", "return value is not a dict")

\* BigQueryDatasource.get_schema; columns: the rows the information schema
\* holds for the table, e.fail: the backend fails to execute the statement
get_schema(self, table_name, columns, e) ==
    LET call == Ev("get_schema", table_name, NONE, NONE, NONE)
        parts == split_bigquery_table_name(self, table_name)
    IN  IF Raised(parts)
        THEN [out |-> IF parts.exc = "ValueError" THEN InvalidTableNameOf(table_name)
                      ELSE parts,
              ev |-> <<call>>]
        ELSE [out |-> IF e.fail THEN ConnectionError
                      ELSE IF columns # <<>>
                      THEN TypeCheckedDict(SchemaDict(columns), TRUE)
                      ELSE TypeCheckedDict(<<>>, FALSE),
              ev |-> <<call, Step("engine.connect"),
                       Ev("read_sql", NONE, NONE, NONE,
                          SchemaQuery(parts.value[1], parts.value[2], parts.value[3])),
                       Step("connection.close")>>]

\* the class each datasource factory constructs
DatasourceClassOf ==
    [SQLAlchemyDatasource |-> "SQLAlchemyDatasource",
     BigQueryDatasource |-> "BigQueryDatasource",
     get_sqlalchemy_datasource |-> "SQLAlchemyDatasource",
     get_bigquery_datasource |-> "BigQueryDatasource",
     get_sql_datasource |-> "SQLAlchemyDatasource",
     test_base_datasource |-> "BaseDatasource"]

DatasourceFactories == DOMAIN DatasourceClassOf

\* fn(datasource_name, connection_string)
CallDatasourceFactory(fn, datasource_name, connection_string) ==
    CASE DatasourceClassOf[fn] = "BaseDatasource" ->
            BaseDatasource_init(datasource_name, connection_string)
      [] DatasourceClassOf[fn] = "BigQueryDatasource" ->
            BigQueryDatasource_init(datasource_name, connection_string)
      [] OTHER ->
            SQLAlchemyDatasource_init("SQLAlchemyDatasource", datasource_name,
                                      connection_string)

\* the dict literal DATA_SOURCES starts as
InitialDataSources ==
    [sqlalchemy |-> "SQLAlchemyDatasource", bigquery |-> "BigQueryDatasource"]

\* faulty variant: an entry already present is kept
register_keep(registry, key, fn) ==
    [k \in DOMAIN registry \cup {key} |->
        IF k \in DOMAIN registry THEN registry[k] ELSE fn]

\* the decorator of register_datasource / register_datacheck: registry[key] = fn
register(registry, key, fn) ==
    [k \in DOMAIN registry \cup {key} |-> IF k = key THEN fn ELSE registry[k]]

\* DATA_SOURCES once the module is loaded: the two decorated functions have
\* replaced the classes of the literal
LoadedDataSources ==
    register(register(InitialDataSources, "sqlalchemy", "get_sqlalchemy_datasource"),
             "bigquery", "get_bigquery_datasource")

DatasourceNotAvailable(datasource_type) ==
    Raise("ValueError", [text |-> "Data Source of type {} is Not Available",
                         datasource_type |-> datasource_type])

\* faulty variant: an unknown type falls back to the SQLAlchemy factory
get_datasource_fallback(registry, datasource_type, datasource_name, connection_string) ==
    LET fn == IF datasource_type \in DOMAIN registry THEN registry[datasource_type]
              ELSE "get_sqlalchemy_datasource"
    IN  [out |-> CallDatasourceFactory(fn, datasource_name, connection_string),
         ev |-> <<Step("get_datasource"),
                  FactoryEv(fn, <<datasource_name, connection_string>>)>>]

get_datasource(registry, datasource_type, datasource_name, connection_string) ==
    IF datasource_type \in DOMAIN registry
    THEN [out |-> CallDatasourceFactory(registry[datasource_type], datasource_name,
                                        connection_string),
          ev |-> <<Step("get_datasource"),
                   FactoryEv(registry[datasource_type],
                             <<datasource_name, connection_string>>)>>]
    ELSE [out |-> DatasourceNotAvailable(datasource_type),
          ev |-> <<Step("get_datasource")>>]

\* BaseCheck.__init__ as each check class calls it: the name is fixed by the class
CheckNameOf ==
    [EmptyTableCheck |-> "empty_table_check",
     TableCountCheck |-> "table_count_check",
     UniqueColumnValueCheck |-> "unique_column_value_check",
     CheckColumnValueBelongToSet |-> "check_column_value_belong_to_set",
     CheckColumnValueToBeInRange |-> "check_column_value_to_be_in_range"]

CheckTypeOf ==
    [EmptyTableCheck |-> "value_check",
     TableCountCheck |-> "value_check",
     UniqueColumnValueCheck |-> "column_check",
     CheckColumnValueBelongToSet |-> "column_check",
     CheckColumnValueToBeInRange |-> "column_check"]

\* the class each check factory constructs
CheckClassOf ==
    [EmptyTableCheck |-> "EmptyTableCheck",
     TableCountCheck |-> "TableCountCheck",
     UniqueColumnValueCheck |-> "UniqueColumnValueCheck",
     CheckColumnValueBelongToSet |-> "CheckColumnValueBelongToSet",
     CheckColumnValueToBeInRange |-> "CheckColumnValueToBeInRange",
     get_empty_table_check |-> "EmptyTableCheck",
     get_table_count_check |-> "TableCountCheck",
     get_unique_column_value_check |-> "UniqueColumnValueCheck",
     get_check_column_value_belong_to_set |-> "CheckColumnValueBelongToSet",
     get_check_column_value_to_be_in_range |-> "CheckColumnValueToBeInRange"]

CheckFactories == DOMAIN CheckClassOf

\* fn(): a new check object
CallCheckFactory(fn) ==
    Return([class |-> CheckClassOf[fn], name |-> CheckNameOf[CheckClassOf[fn]],
            type |-> CheckTypeOf[CheckClassOf[fn]]])

\* the dict literal DATA_CHECKS starts as
InitialDataChecks ==
    [empty_table_check |-> "EmptyTableCheck",
     table_count_check |-> "TableCountCheck",
     unique_column_value_check |-> "UniqueColumnValueCheck",
     check_column_values_belong_to_set |-> "CheckColumnValueBelongToSet",
     check_column_values_to_be_in_range |-> "CheckColumnValueToBeInRange"]

\* the @register_datacheck decorations of the module, in order
CheckRegistrations ==
    << <<"empty_table_check", "get_empty_table_check">>,
       <<"table_count_check", "get_table_count_check">>,
       <<"unique_column_value_check", "get_unique_column_value_check">>,
       <<"check_column_value_belong_to_set", "get_check_column_value_belong_to_set">>,
       <<"check_column_value_to_be_in_range", "get_check_column_value_to_be_in_range">> >>

RECURSIVE RegisterAll(_, _)
RegisterAll(registry, regs) ==
    IF regs = <<>> THEN registry
    ELSE RegisterAll(register(registry, Head(regs)[1], Head(regs)[2]), Tail(regs))

\* DATA_CHECKS once the module is loaded
LoadedDataChecks == RegisterAll(InitialDataChecks, CheckRegistrations)

DataCheckNotAvailable(check_name) ==
    Raise("InvalidDataCheckException",
          [text |-> "DataCheck with Name {} is not available", check_name |-> check_name])

get_datacheck(registry, check_name) ==
    IF check_name \in DOMAIN registry
    THEN [out |-> CallCheckFactory(registry[check_name]),
          ev |-> <<Step("get_datacheck"), FactoryEv(registry[check_name], <<>>)>>]
    ELSE [out |-> DataCheckNotAvailable(check_name), ev |-> <<Step("get_datacheck")>>]

(***************************************************************************)
(* The inputs the calls are drawn from.                                    *)
(***************************************************************************)
DatasourceObject == <<"<datasource>">>

\* a dict with the key k bound to one of vals, or without the key
Optional(k, vals) == {<<>>} \cup {k :> x : x \in vals}

QueryConfigs ==
    {d @@ t @@ q @@ c :
        d \in Optional("datasource", {DatasourceObject}),
        t \in Optional("table_name", {KnownTable, <<>>}),
        q \in Optional("query", {KnownQuery}),
        c \in Optional("column_name", {KnownColumn})}

CheckConfigs ==
    {n @@ t @@ s @@ r :
        n \in Optional("count", {0, 2}),
        t \in Optional("threshold", {Frac(1, 2)}),
        s \in Optional("column_value_set", {<<2, 1, 2>>}),
        r \in Optional("column_value_range", {[min |-> 2, max |-> 2], [min |-> 2]})}

QueryGroups == {<<>>, <<"datasource">>, <<"table_name", "query">>, <<"column_name">>}

CheckGroups == {<<>>, <<"count">>, <<"column_value_set", "column_value_range">>,
                <<"threshold">>}

\* tuples of at most MaxGroups groups
GroupTuples(groups) == UNION {[1..n -> groups] : n \in 0..MaxGroups}

\* the relations the backend may hold: the order of the rows is immaterial
Relations ==
    {s \in UNION {[1..n -> Values] : n \in 0..MaxRows} :
        \A i \in 1..(Len(s) - 1) : s[i] <= s[i + 1]}

\* the orders in which the backend may list distinct values
Orders ==
    {s \in [1..Cardinality(Values) -> Values] :
        \A i, j \in 1..Cardinality(Values) : s[i] = s[j] => i = j}

AnyOrder == CHOOSE s \in Orders : TRUE

Checks == {"empty_table_check", "table_count_check", "unique_column_value_check",
           "check_column_value_belong_to_set", "check_column_value_to_be_in_range"}

(***************************************************************************)
(* The state machine: one call, from its arguments to its outcome.         *)
(***************************************************************************)
Init ==
    /\ pc = "idle"
    /\ op = "none"
    /\ query_config = <<>>
    /\ check_config = <<>>
    /\ required_params = <<>>
    /\ omitted = FALSE
    /\ rows = <<>>
    /\ events = <<>>
    /\ outcome = ReturnNone
    /\ args = <<>>
    /\ backend = <<>>
    /\ DATA_SOURCES = LoadedDataSources
    /\ DATA_CHECKS = LoadedDataChecks

\* a check's run has ended with r
Ran(name, qc, cc, rel, e, r) ==
    /\ pc' = "done"
    /\ op' = name
    /\ query_config' = qc
    /\ check_config' = cc
    /\ rows' = rel
    /\ backend' = e
    /\ events' = r.ev
    /\ outcome' = r.out
    /\ UNCHANGED <<required_params, omitted, args, DATA_SOURCES, DATA_CHECKS>>

EmptyTableCheckRun ==
    /\ pc = "idle"
    /\ \E qc \in QueryConfigs, cc \in CheckConfigs, rel \in Relations, k \in 0..1 :
          Ran("empty_table_check", qc, cc, rel, [failAt |-> k, order |-> AnyOrder],
              EmptyTableCheck_run(qc, cc, rel, [failAt |-> k, order |-> AnyOrder]))

TableCountCheckRun ==
    /\ pc = "idle"
    /\ \E qc \in QueryConfigs, cc \in CheckConfigs, rel \in Relations, k \in 0..1 :
          Ran("table_count_check", qc, cc, rel, [failAt |-> k, order |-> AnyOrder],
              TableCountCheck_run(qc, cc, rel, [failAt |-> k, order |-> AnyOrder]))

UniqueColumnValueCheckRun ==
    /\ pc = "idle"
    /\ \E qc \in QueryConfigs, cc \in CheckConfigs, rel \in Relations, k \in 0..2 :
          Ran("unique_column_value_check", qc, cc, rel, [failAt |-> k, order |-> AnyOrder],
              UniqueColumnValueCheck_run(qc, cc, rel, [failAt |-> k, order |-> AnyOrder]))

CheckColumnValueBelongToSetRun ==
    /\ pc = "idle"
    /\ \E qc \in QueryConfigs, cc \in CheckConfigs, rel \in Relations, k \in 0..1,
          o \in Orders :
          Ran("check_column_value_belong_to_set", qc, cc, rel, [failAt |-> k, order |-> o],
              CheckColumnValueBelongToSet_run(qc, cc, rel, [failAt |-> k, order |-> o]))

CheckColumnValueToBeInRangeRun ==
    /\ pc = "idle"
    /\ \E qc \in QueryConfigs, cc \in CheckConfigs, rel \in Relations, k \in 0..3 :
          Ran("check_column_value_to_be_in_range", qc, cc, rel, [failAt |-> k, order |-> AnyOrder],
              CheckColumnValueToBeInRange_run(qc, cc, rel,
                                              [failAt |-> k, order |-> AnyOrder]))

\* a direct call of a BaseCheck static method
Called(name, qc, cc, groups, om, out) ==
    /\ pc' = "done"
    /\ op' = name
    /\ query_config' = qc
    /\ check_config' = cc
    /\ required_params' = groups
    /\ omitted' = om
    /\ events' = <<Step(name)>>
    /\ outcome' = out
    /\ UNCHANGED <<rows, args, backend, DATA_SOURCES, DATA_CHECKS>>

ValidateQueryConfigCall ==
    /\ pc = "idle"
    /\ \E qc \in QueryConfigs, groups \in GroupTuples(QueryGroups) :
          Called("validate_query_config", qc, <<>>, groups, FALSE,
                 validate_query_config(qc, groups))

\* required_params left to its default
ValidateQueryConfigDefaultCall ==
    /\ pc = "idle"
    /\ \E qc \in QueryConfigs :
          Called("validate_query_config", qc, <<>>, DefaultRequiredParams, TRUE,
                 validate_query_config(qc, DefaultRequiredParams))

ValidateCheckConfigCall ==
    /\ pc = "idle"
    /\ \E cc \in CheckConfigs, groups \in GroupTuples(CheckGroups) :
          Called("validate_check_config", <<>>, cc, groups, FALSE,
                 validate_check_config(cc, groups))

ExtractTableNameCall ==
    /\ pc = "idle"
    /\ \E qc \in QueryConfigs :
          Called("extract_table_name", qc, <<>>, <<>>, FALSE, extract_table_name(qc))

Next ==
    \/ EmptyTableCheckRun
    \/ TableCountCheckRun
    \/ UniqueColumnValueCheckRun
    \/ CheckColumnValueBelongToSetRun
    \/ CheckColumnValueToBeInRangeRun
    \/ ValidateQueryConfigCall
    \/ ValidateQueryConfigDefaultCall
    \/ ValidateCheckConfigCall
    \/ ExtractTableNameCall

Spec == Init /\ [][Next]_vars

(***************************************************************************)
(* The registries under sequences of calls: every call starts once the     *)
(* previous one has ended, on the registries that one left.                *)
(***************************************************************************)
\* the datasource types the calls name; "invalid" is never registered
DatasourceTypes == {"sqlalchemy", "bigquery", "sqlite", "invalid"}

RegistrableDatasourceTypes == {"sqlalchemy", "sqlite"}

RegistrableDatasourceFactories ==
    {"get_sql_datasource", "test_base_datasource", "get_bigquery_datasource"}

DatasourceNames == {<<"test">>}

ConnectionStrings == {ValidConnection, InvalidConnection}

\* the check names the calls name; "invalid" is never registered
CheckNames == DOMAIN LoadedDataChecks \cup {"custom_check", "invalid"}

RegistrableCheckNames == {"empty_table_check", "custom_check"}

RegistrableCheckFactories ==
    {"get_empty_table_check", "get_table_count_check", "CheckColumnValueToBeInRange"}

\* a registry function was called with arguments a and ended with r
RegistryCalled(name, a, r, sources, checks) ==
    /\ pc' = "done"
    /\ op' = name
    /\ args' = a
    /\ events' = r.ev
    /\ outcome' = r.out
    /\ DATA_SOURCES' = sources
    /\ DATA_CHECKS' = checks
    /\ UNCHANGED <<query_config, check_config, required_params, omitted, rows, backend>>

\* @register_datasource(datasource_type) applied to fn: the decorator returns fn
RegisterDatasourceCall ==
    \E k \in RegistrableDatasourceTypes, fn \in RegistrableDatasourceFactories :
        RegistryCalled("register_datasource", [datasource_type |-> k, fn |-> fn],
                       [out |-> Return(fn), ev |-> <<Step("register_datasource")>>],
                       register(DATA_SOURCES, k, fn), DATA_CHECKS)

GetDatasourceCall ==
    \E k \in DatasourceTypes, n \in DatasourceNames, c \in ConnectionStrings :
        RegistryCalled("get_datasource",
                       [datasource_type |-> k, datasource_name |-> n,
                        connection_string |-> c],
                       get_datasource(DATA_SOURCES, k, n, c),
                       DATA_SOURCES, DATA_CHECKS)

\* @register_datacheck(check_name) applied to fn: the decorator returns fn
RegisterDatacheckCall ==
    \E k \in RegistrableCheckNames, fn \in RegistrableCheckFactories :
        RegistryCalled("register_datacheck", [check_name |-> k, fn |-> fn],
                       [out |-> Return(fn), ev |-> <<Step("register_datacheck")>>],
                       DATA_SOURCES, register(DATA_CHECKS, k, fn))

GetDatacheckCall ==
    \E k \in CheckNames :
        RegistryCalled("get_datacheck", [check_name |-> k],
                       get_datacheck(DATA_CHECKS, k), DATA_SOURCES, DATA_CHECKS)

NextRegistry ==
    \/ RegisterDatasourceCall
    \/ GetDatasourceCall
    \/ RegisterDatacheckCall
    \/ GetDatacheckCall

SpecRegistry == Init /\ [][NextRegistry]_vars

(***************************************************************************)
(* The SQLAlchemyDatasource operations called directly, one call each.     *)
(***************************************************************************)
\* a table the backend does not hold
UnknownTable == <<"customers">>

TableNames == {NONE, <<>>, <<" ">>, KnownTable, UnknownTable}

Queries == {NONE, <<>>, <<" ">>, KnownQuery}

ColumnNames == {NONE, <<>>, <<" ">>, KnownColumn}

Backends == [fail : BOOLEAN, norows : BOOLEAN, order : {AnyOrder}]

OrderedBackends == [fail : BOOLEAN, norows : BOOLEAN, order : Orders]

\* a datasource operation was called with arguments a and ended with r
DatasourceCalled(name, a, rel, e, r) ==
    /\ pc' = "done"
    /\ op' = name
    /\ args' = a
    /\ rows' = rel
    /\ backend' = e
    /\ events' = r.ev
    /\ outcome' = r.out
    /\ UNCHANGED <<query_config, check_config, required_params, omitted,
                   DATA_SOURCES, DATA_CHECKS>>

LoadDataCall ==
    /\ pc = "idle"
    /\ \E t \in TableNames, q \in Queries, rel \in Relations, e \in Backends :
          DatasourceCalled("load_data", [table_name |-> t, query |-> q], rel, e,
                           load_data(rel, t, q, e))

GetTableCountCall ==
    /\ pc = "idle"
    /\ \E t \in TableNames, q \in Queries, rel \in Relations, e \in Backends :
          DatasourceCalled("get_table_count", [table_name |-> t, query |-> q], rel, e,
                           get_table_count(rel, t, q, e))

GetNonNullValueCountCall ==
    /\ pc = "idle"
    /\ \E t \in TableNames, c \in ColumnNames, q \in Queries, rel \in Relations,
          e \in Backends :
          DatasourceCalled("get_non_null_value_count",
                           [table_name |-> t, column_name |-> c, query |-> q], rel, e,
                           get_non_null_value_count(rel, t, c, q, e))

GetUniqueValuesCall ==
    /\ pc = "idle"
    /\ \E t \in TableNames, c \in ColumnNames, q \in Queries, rel \in Relations,
          e \in OrderedBackends :
          DatasourceCalled("get_unique_values",
                           [table_name |-> t, column_name |-> c, query |-> q], rel, e,
                           get_unique_values(rel, t, c, q, e))

GetUniqueValueCountCall ==
    /\ pc = "idle"
    /\ \E t \in TableNames, c \in ColumnNames, q \in Queries, rel \in Relations,
          e \in Backends :
          DatasourceCalled("get_unique_value_count",
                           [table_name |-> t, column_name |-> c, query |-> q], rel, e,
                           get_unique_value_count(rel, t, c, q, e))

NextDatasource ==
    \/ LoadDataCall
    \/ GetTableCountCall
    \/ GetNonNullValueCountCall
    \/ GetUniqueValuesCall
    \/ GetUniqueValueCountCall

SpecDatasource == Init /\ [][NextDatasource]_vars

(***************************************************************************)
(* The table-name functions of BigQueryDatasource, one call each, on a     *)
(* datasource constructed from a connection string.                        *)
(***************************************************************************)
\* bigquery://p/d, bigquery://p (no dataset) and bigquery://p/ (empty dataset)
BigQueryConnections ==
    {<<"bigquery://", "p", "/", "d">>, <<"bigquery://", "p">>, <<"bigquery://", "p", "/">>}

BigQueryDatasources ==
    {BigQueryDatasource_init(<<"my_datasource">>, c).value : c \in BigQueryConnections}

NameTokens == {Backtick, ".", " ", "t"}

\* the table names of at most MaxNameLen tokens, and three longer or odd ones
BigQueryTableNames ==
    UNION {[1..n -> NameTokens] : n \in 0..MaxNameLen}
        \cup {<<"a", ".", "b", ".", "c", ".", "d">>,
              <<Backtick, "p2", ".", "d2", ".", "t", Backtick>>,
              <<"\t">>}

TableIds == {<<>>, <<" ">>, <<"\t">>, <<" ", " ">>, <<"t">>, <<" ", "t">>}

DatasetIds == {NONE, <<>>, <<"d2">>}

ProjectIds == {NONE, <<>>, <<"p2">>}

\* a function of the datasource was called with arguments a and ended with out
BigQueryCalled(name, a, out) ==
    /\ pc' = "done"
    /\ op' = name
    /\ args' = a
    /\ events' = <<Step(name)>>
    /\ outcome' = out
    /\ UNCHANGED <<query_config, check_config, required_params, omitted, rows,
                   backend, DATA_SOURCES, DATA_CHECKS>>

SplitBigqueryTableNameCall ==
    /\ pc = "idle"
    /\ \E self \in BigQueryDatasources, t \in BigQueryTableNames :
          BigQueryCalled("split_bigquery_table_name", [self |-> self, table_name |-> t],
                         split_bigquery_table_name(self, t))

GenerateBigqueryTableNameCall ==
    /\ pc = "idle"
    /\ \E self \in BigQueryDatasources, t \in TableIds, d \in DatasetIds,
          p \in ProjectIds :
          BigQueryCalled("generate_bigquery_table_name",
                         [self |-> self, table_id |-> t, dataset_id |-> d,
                          project_id |-> p],
                         generate_bigquery_table_name(self, t, d, p))

\* the tokens of an id: no dot and no backtick
IdTokens == {" ", "\t", "t"}

\* the non-empty ids of at most MaxIdLen tokens
Ids == UNION {[1..n -> IdTokens] : n \in 1..MaxIdLen}

\* the fully-qualified name of p, d, t between backticks
QualifiedName(p, d, t) ==
    <<Backtick>> \o p \o <<".">> \o d \o <<".">> \o t \o <<Backtick>>

\* generate_bigquery_table_name(t', d', p') on the triple a split returned
GenerateFrom(self, parts) ==
    IF Raised(parts) THEN parts
    ELSE generate_bigquery_table_name(self, parts.value[3], parts.value[2], parts.value[1])

\* split_bigquery_table_name on the name a generate returned
SplitFrom(self, name) ==
    IF Raised(name) THEN name ELSE split_bigquery_table_name(self, name.value)

SplitThenGenerateCall ==
    /\ pc = "idle"
    /\ \E self \in BigQueryDatasources, p \in Ids, d \in Ids, t \in Ids :
          BigQueryCalled("split_then_generate",
                         [self |-> self, table_id |-> t, dataset_id |-> d,
                          project_id |-> p],
                         GenerateFrom(self,
                             split_bigquery_table_name(self, QualifiedName(p, d, t))))

GenerateThenSplitCall ==
    /\ pc = "idle"
    /\ \E self \in BigQueryDatasources, p \in Ids, d \in Ids, t \in Ids :
          BigQueryCalled("generate_then_split",
                         [self |-> self, table_id |-> t, dataset_id |-> d,
                          project_id |-> p],
                         SplitFrom(self, generate_bigquery_table_name(self, t, d, p)))

\* the rows of the information schema: none, one column, three columns
SchemaRows ==
    {<<>>, << <<"id", "INT64">> >>,
     << <<"id", "INT64">>, <<"first_name", "STRING">>, <<"last_name", "STRING">> >>}

SchemaTableNames ==
    {<<>>, <<" ">>, <<"customers">>, <<Backtick, "d2", ".", "customers", Backtick>>,
     <<"p2", ".", "d2", ".", "customers">>}

GetSchemaCall ==
    /\ pc = "idle"
    /\ \E self \in BigQueryDatasources, t \in SchemaTableNames, columns \in SchemaRows,
          fail \in BOOLEAN :
          LET r == get_schema(self, t, columns, [fail |-> fail]) IN
          /\ pc' = "done"
          /\ op' = "get_schema"
          /\ args' = [self |-> self, table_name |-> t]
          /\ rows' = columns
          /\ backend' = [fail |-> fail]
          /\ events' = r.ev
          /\ outcome' = r.out
          /\ UNCHANGED <<query_config, check_config, required_params, omitted,
                         DATA_SOURCES, DATA_CHECKS>>

ConstructBigQueryDatasourceCall ==
    /\ pc = "idle"
    /\ \E n \in {<<"my_datasource">>, <<"test_datasource">>}, c \in BigQueryConnections :
          BigQueryCalled("BigQueryDatasource",
                         [datasource_name |-> n, connection_string |-> c],
                         BigQueryDatasource_init(n, c))

NextBigQuery ==
    \/ ConstructBigQueryDatasourceCall
    \/ GetSchemaCall
    \/ SplitBigqueryTableNameCall
    \/ GenerateBigqueryTableNameCall
    \/ SplitThenGenerateCall
    \/ GenerateThenSplitCall

SpecBigQuery == Init /\ [][NextBigQuery]_vars

(***************************************************************************)
(* The operations left to subclasses, one call each; an omitted argument   *)
(* takes its default None.                                                 *)
(***************************************************************************)
AbstractCalled(name, a, out) ==
    /\ pc' = "done"
    /\ op' = name
    /\ args' = a
    /\ events' = <<Step(name)>>
    /\ outcome' = out
    /\ UNCHANGED <<query_config, check_config, required_params, omitted, rows,
                   backend, DATA_SOURCES, DATA_CHECKS>>

BaseLoadDataCall ==
    /\ pc = "idle"
    /\ \E t \in TableNames :
          AbstractCalled("BaseDatasource.load_data", [table_name |-> t],
                         BaseDatasource_load_data(t))

BaseGetSchemaCall ==
    /\ pc = "idle"
    /\ \E t \in TableNames \ {NONE} :
          AbstractCalled("BaseDatasource.get_schema", [table_name |-> t],
                         BaseDatasource_get_schema(t))

BaseGetTableCountCall ==
    /\ pc = "idle"
    /\ \E t \in TableNames, q \in Queries :
          AbstractCalled("BaseDatasource.get_table_count",
                         [table_name |-> t, query |-> q],
                         BaseDatasource_get_table_count(t, q))

BaseGetNonNullValueCountCall ==
    /\ pc = "idle"
    /\ \E t \in TableNames, c \in ColumnNames, q \in Queries :
          AbstractCalled("BaseDatasource.get_non_null_value_count",
                         [table_name |-> t, column_name |-> c, query |-> q],
                         BaseDatasource_get_non_null_value_count(t, c, q))

BaseGetUniqueValueCountCall ==
    /\ pc = "idle"
    /\ \E t \in TableNames, c \in ColumnNames, q \in Queries :
          AbstractCalled("BaseDatasource.get_unique_value_count",
                         [table_name |-> t, column_name |-> c, query |-> q],
                         BaseDatasource_get_unique_value_count(t, c, q))

SQLAlchemyGetSchemaCall ==
    /\ pc = "idle"
    /\ \E t \in TableNames \ {NONE} :
          AbstractCalled("SQLAlchemyDatasource.get_schema", [table_name |-> t],
                         SQLAlchemyDatasource_get_schema(t))

BaseCheckRunCall ==
    /\ pc = "idle"
    /\ \E qc \in QueryConfigs, cc \in CheckConfigs :
          AbstractCalled("BaseCheck.run", [query_config |-> qc, check_config |-> cc],
                         BaseCheck_run(qc, cc))

NextAbstract ==
    \/ BaseLoadDataCall
    \/ BaseGetSchemaCall
    \/ BaseGetTableCountCall
    \/ BaseGetNonNullValueCountCall
    \/ BaseGetUniqueValueCountCall
    \/ SQLAlchemyGetSchemaCall
    \/ BaseCheckRunCall

SpecAbstract == Init /\ [][NextAbstract]_vars

(***************************************************************************)
(* Properties.                                                             *)
(***************************************************************************)
Done(name) == pc = "done" /\ op = name

RaisedWith(exc) == outcome.kind = "raise" /\ outcome.exc = exc

HasKey(config, k) == k \in DOMAIN config

\* the query_config passes the default groups
ValidQuery == HasKey(query_config, "datasource")
              /\ (HasKey(query_config, "table_name") \/ HasKey(query_config, "query"))

\* the query_config passes the groups of a column check
ValidColumnQuery == ValidQuery /\ HasKey(query_config, "column_name")

NoBackendUse == DatasourceCalls(events) = <<>> /\ SentStatements(events) = <<>>

\* the groups of required_params no key of which is a key of config
UnsatisfiedGroups(config) ==
    {i \in 1..Len(required_params) :
        SeqToSet(required_params[i]) \cap DOMAIN config = {}}

ValidationOutcomeOk(config, exc) ==
    LET unsat == UnsatisfiedGroups(config) IN
    IF unsat = {} THEN outcome.kind = "return" /\ outcome.none
    ELSE /\ RaisedWith(exc)
         /\ \E i \in unsat :
               /\ \A j \in unsat : i <= j
               /\ outcome.msg.params = required_params[i]

\* C1: validate_query_config and validate_check_config walk the groups in
\* order; a group is satisfied iff one of its keys is a key of the config,
\* whatever its value; the call raises at the first unsatisfied group, naming
\* exactly that group, and returns without error iff every group is satisfied;
\* the default groups of validate_query_config are (datasource), (table_name, query).
C1_ValidateGroups ==
    /\ Done("validate_query_config") =>
          /\ ValidationOutcomeOk(query_config, "InvalidQueryConfigException")
          /\ omitted =>
                required_params = << <<"datasource">>, <<"table_name", "query">> >>
    /\ Done("validate_check_config") =>
          ValidationOutcomeOk(check_config, "InvalidCheckConfigException")

\* the first group is satisfied by a key with an empty value, the second fails
C1_Witness ==
    /\ Done("validate_query_config")
    /\ required_params = << <<"table_name", "query">>, <<"column_name">> >>
    /\ DOMAIN query_config = {"datasource", "table_name"}
    /\ query_config["table_name"] = <<>>
    /\ RaisedWith("InvalidQueryConfigException")
    /\ outcome.msg.params = <<"column_name">>

\* C2: every check run on a query_config without 'datasource' raises
\* InvalidQueryConfigException naming the group (datasource), for every
\* check_config and whatever other keys query_config has, and invokes no
\* datasource operation.
C2_MissingDatasource ==
    (pc = "done" /\ op \in Checks /\ ~HasKey(query_config, "datasource")) =>
        /\ RaisedWith("InvalidQueryConfigException")
        /\ outcome.msg.params = <<"datasource">>
        /\ NoBackendUse

C2_Witness ==
    /\ Done("check_column_value_to_be_in_range")
    /\ DOMAIN query_config = {"table_name", "query", "column_name"}
    /\ HasKey(check_config, "column_value_range")
    /\ RaisedWith("InvalidQueryConfigException")
    /\ outcome.msg.params = <<"datasource">>

\* C3: a run that ends with InvalidQueryConfigException or
\* InvalidCheckConfigException has invoked no datasource operation, and in
\* every run all config validation precedes the first datasource operation.
C3_ValidationBeforeBackend ==
    (pc = "done" /\ op \in Checks) =>
        /\ (RaisedWith("InvalidQueryConfigException")
                \/ RaisedWith("InvalidCheckConfigException")) => NoBackendUse
        /\ \A i, j \in 1..Len(events) :
              (events[i].call \in DatasourceOps \cup {"read_sql"}
                 /\ events[j].call \in {"validate_query_config", "validate_check_config"})
              => j < i

\* a valid query_config with a check_config that misses its required key
C3_Witness ==
    /\ Done("table_count_check")
    /\ ValidQuery
    /\ ~HasKey(check_config, "count")
    /\ RaisedWith("InvalidCheckConfigException")
    /\ Len(events) = 2

\* C4: extract_table_name returns the value of 'table_name' unchanged whenever
\* the key is present, even with 'query' present too; otherwise the query
\* wrapped in parentheses; otherwise it raises InvalidQueryConfigException.
C4_ExtractTableName ==
    Done("extract_table_name") =>
        IF HasKey(query_config, "table_name")
        THEN outcome.kind = "return" /\ outcome.value = query_config["table_name"]
        ELSE IF HasKey(query_config, "query")
        THEN /\ outcome.kind = "return"
             /\ Len(outcome.value) = Len(query_config["query"]) + 2
             /\ Head(outcome.value) = "("
             /\ outcome.value[Len(outcome.value)] = ")"
             /\ SubSeq(outcome.value, 2, Len(outcome.value) - 1) = query_config["query"]
        ELSE RaisedWith("InvalidQueryConfigException")

\* an empty table_name is returned as it is although a query is present
C4_Witness ==
    /\ Done("extract_table_name")
    /\ HasKey(query_config, "query")
    /\ HasKey(query_config, "table_name")
    /\ query_config["table_name"] = <<>>
    /\ outcome.kind = "return"
    /\ outcome.value = <<>>

\* the table reference a run hands to the datasource
TableRef ==
    IF HasKey(query_config, "table_name") THEN query_config["table_name"]
    ELSE <<"(">> \o query_config["query"] \o <<")">>

\* the datasource reported no value: the backend failed, or the datasource
\* refused a blank table reference
NoReport ==
    \/ RaisedWith("BackendError")
    \/ RaisedWith("ValueError") /\ IsBlank(TableRef)

\* the arguments of the datasource operations invoked, in order
CallsOn(call) == SelectSeq(events, LAMBDA e : e.call = call)

\* C5: for every valid query_config EmptyTableCheck.run returns exactly
\* {'empty_table_check': {'status': s, 'record_count': n}}, n the row count the
\* datasource reports for the table reference, s 'Failed' iff n = 0;
\* check_config has no influence.
C5_EmptyTableCheck ==
    (Done("empty_table_check") /\ ValidQuery) =>
        /\ DatasourceCalls(events) = <<"get_table_count">>
        /\ CallsOn("get_table_count")[1].table_name = TableRef
        /\ \/ NoReport
           \/ outcome = Return("empty_table_check" :>
                   [status |-> IF Len(rows) = 0 THEN "Failed" ELSE "Success",
                    record_count |-> Len(rows)])

\* an empty table under a check_config full of keys
C5_Witness ==
    /\ Done("empty_table_check")
    /\ DOMAIN check_config =
          {"count", "threshold", "column_value_set", "column_value_range"}
    /\ rows = <<>>
    /\ outcome.kind = "return"
    /\ outcome.value["empty_table_check"].status = "Failed"

\* C6: for every valid query_config and check_config with 'count',
\* TableCountCheck.run returns exactly {'table_count_check': {'status': s,
\* 'actual_table_count': n, 'expected_table_count': c}}, s 'Failed' iff n # c.
C6_TableCountCheck ==
    (Done("table_count_check") /\ ValidQuery /\ HasKey(check_config, "count")) =>
        /\ DatasourceCalls(events) = <<"get_table_count">>
        /\ CallsOn("get_table_count")[1].table_name = TableRef
        /\ \/ NoReport
           \/ outcome = Return("table_count_check" :>
                   [status |-> IF Len(rows) = check_config["count"]
                               THEN "Success" ELSE "Failed",
                    actual_table_count |-> Len(rows),
                    expected_table_count |-> check_config["count"]])

\* n = c = 0 succeeds
C6_Witness ==
    /\ Done("table_count_check")
    /\ rows = <<>>
    /\ HasKey(check_config, "count")
    /\ check_config["count"] = 0
    /\ outcome.kind = "return"
    /\ outcome.value["table_count_check"].status = "Success"

\* threshold = check_config['threshold'], or 1 when the key is absent
ExpectedThreshold ==
    IF HasKey(check_config, "threshold") THEN check_config["threshold"]
    ELSE [num |-> 1, den |-> 1]

\* Failed iff a / b < threshold, strictly
ExpectedStatus(a, b) ==
    IF a * ExpectedThreshold.den < ExpectedThreshold.num * b THEN "Failed" ELSE "Success"

\* p is a / b * 100 rounded to two decimals
IsRoundedPercentage(p, a, b) ==
    /\ p.den = 100
    /\ 2 * (p.num * b - 10000 * a) <= b
    /\ 2 * (10000 * a - p.num * b) <= b

IsAscending(s) == \A i \in 1..(Len(s) - 1) : s[i] < s[i + 1]

\* C8: for a non-empty list A of distinct actual values and the expected set E,
\* CheckColumnValueBelongToSet.run returns status 'Failed' iff
\* |A \cap E| / |A| < threshold (default 1), actual_unique_values = A sorted
\* ascending, expected_unique_values = E sorted ascending without duplicates,
\* matching_percentage = the ratio * 100 rounded to two decimals.
C8_BelongToSet ==
    (Done("check_column_value_belong_to_set") /\ ValidColumnQuery
        /\ HasKey(check_config, "column_value_set") /\ rows # <<>>) =>
        \/ NoReport
        \/ /\ outcome.kind = "return"
           /\ DOMAIN outcome.value = {"check_column_value_belong_to_set"}
           /\ LET res == outcome.value["check_column_value_belong_to_set"]
                  A == SeqToSet(rows)
                  E == SeqToSet(check_config["column_value_set"])
                  matchCount == Cardinality(A \cap E)
              IN  /\ DOMAIN res = {"status", "actual_unique_values",
                                   "expected_unique_values",
                                   "matching_percentage", "threshold"}
                  /\ res.status = ExpectedStatus(matchCount, Cardinality(A))
                  /\ IsAscending(res.actual_unique_values)
                  /\ SeqToSet(res.actual_unique_values) = A
                  /\ IsAscending(res.expected_unique_values)
                  /\ SeqToSet(res.expected_unique_values) = E
                  /\ IsRoundedPercentage(res.matching_percentage, matchCount,
                                         Cardinality(A))
                  /\ res.threshold = ExpectedThreshold
                  /\ (A = {1, 2, 3} /\ E = {1, 2} /\ ~HasKey(check_config, "threshold"))
                        => /\ res.matching_percentage = [num |-> 6667, den |-> 100]
                           /\ res.status = "Failed"

\* the example: three actual values, two of them expected, no threshold
C8_Witness ==
    /\ Done("check_column_value_belong_to_set")
    /\ rows = <<1, 2, 3>>
    /\ ~HasKey(check_config, "threshold")
    /\ outcome.kind = "return"
    /\ outcome.value["check_column_value_belong_to_set"].matching_percentage
          = [num |-> 6667, den |-> 100]
    /\ outcome.value["check_column_value_belong_to_set"].status = "Failed"

\* C9: on a non-empty table CheckColumnValueToBeInRange.run returns
\* actual_column_range = {min, max} of the column, expected_column_range =
\* check_config['column_value_range'] unchanged, matching_percentage = (rows
\* with expected.min <= column <= expected.max) / (row count) * 100 rounded to
\* two decimals, threshold defaulting to 1, status 'Failed' iff the ratio is
\* below the threshold; all rows in range gives 'Success' with 100.0.
C9_InRange ==
    (Done("check_column_value_to_be_in_range") /\ ValidColumnQuery
        /\ HasKey(check_config, "column_value_range")
        /\ DOMAIN check_config["column_value_range"] = {"min", "max"}
        /\ rows # <<>>) =>
        \/ NoReport
        \/ /\ outcome.kind = "return"
           /\ DOMAIN outcome.value = {"check_column_value_to_be_in_range"}
           /\ LET res == outcome.value["check_column_value_to_be_in_range"]
                  expected == check_config["column_value_range"]
                  total == Len(rows)
                  inRange == Cardinality({i \in 1..total :
                                 expected.min <= rows[i] /\ rows[i] <= expected.max})
              IN  /\ DOMAIN res = {"status", "actual_column_range",
                                   "expected_column_range",
                                   "matching_percentage", "threshold"}
                  /\ \A i \in 1..total :
                        res.actual_column_range.min <= rows[i]
                        /\ rows[i] <= res.actual_column_range.max
                  /\ {res.actual_column_range.min, res.actual_column_range.max}
                        \subseteq SeqToSet(rows)
                  /\ res.expected_column_range = expected
                  /\ IsRoundedPercentage(res.matching_percentage, inRange, total)
                  /\ res.threshold = ExpectedThreshold
                  /\ res.status = ExpectedStatus(inRange, total)
                  /\ inRange = total =>
                        /\ res.status = "Success"
                        /\ res.matching_percentage = [num |-> 10000, den |-> 100]

\* one of two rows sits on the lower bound of the expected range
C9_Witness ==
    /\ Done("check_column_value_to_be_in_range")
    /\ rows = <<1, 2>>
    /\ HasKey(check_config, "column_value_range")
    /\ check_config["column_value_range"] = [min |-> 2, max |-> 2]
    /\ outcome.kind = "return"
    /\ outcome.value["check_column_value_to_be_in_range"].matching_percentage
          = [num |-> 5000, den |-> 100]

\* C10: a ratio check whose denominator is zero resolves the case by a policy
\* of its own and lets no division-by-zero error escape from run.
C10_NoZeroDivisionEscapes ==
    (pc = "done" /\ op \in {"unique_column_value_check",
                             "check_column_value_belong_to_set",
                             "check_column_value_to_be_in_range"})
        => ~RaisedWith("ZeroDivisionError")

(***************************************************************************)
(* Properties of the registries, under SpecRegistry.                       *)
(***************************************************************************)
\* get_datasource invoked the factory now registered under its type, once,
\* with the caller's arguments, and ended as that factory did
ResolvedDatasource ==
    LET fn == DATA_SOURCES[args.datasource_type] IN
    /\ FactoryCalls(events)
          = <<FactoryEv(fn, <<args.datasource_name, args.connection_string>>)>>
    /\ outcome = CallDatasourceFactory(fn, args.datasource_name, args.connection_string)

\* get_datacheck invoked the factory now registered under its name, once, and
\* ended as that factory did
ResolvedDatacheck ==
    LET fn == DATA_CHECKS[args.check_name] IN
    /\ FactoryCalls(events) = <<FactoryEv(fn, <<>>)>>
    /\ outcome = CallCheckFactory(fn)

\* C11: get_datasource on a type that is not registered raises ValueError and
\* get_datacheck on a name that is not registered raises
\* InvalidDataCheckException, no factory is invoked and both registries are as
\* before the call; on a registered key the registered factory is invoked
\* exactly once and its result is the result of the call.
C11_UnregisteredKey ==
    /\ [](Done("get_datasource") =>
            IF args.datasource_type \in DOMAIN DATA_SOURCES
            THEN ResolvedDatasource
            ELSE RaisedWith("ValueError") /\ FactoryCalls(events) = <<>>)
    /\ [](Done("get_datacheck") =>
            IF args.check_name \in DOMAIN DATA_CHECKS
            THEN ResolvedDatacheck
            ELSE RaisedWith("InvalidDataCheckException") /\ FactoryCalls(events) = <<>>)
    /\ [][op' \in {"get_datasource", "get_datacheck"} =>
            (DATA_SOURCES' = DATA_SOURCES /\ DATA_CHECKS' = DATA_CHECKS)]_vars

\* an unregistered type is refused although other types have been registered
C11_Witness ==
    /\ Done("get_datasource")
    /\ args.datasource_type = "invalid"
    /\ "sqlite" \in DOMAIN DATA_SOURCES
    /\ RaisedWith("ValueError")
    /\ Len(events) = 1

\* registry r2 is r1 with key bound to fn and every other entry as it was
Rebound(r1, r2, key, fn) ==
    /\ DOMAIN r2 = DOMAIN r1 \cup {key}
    /\ r2[key] = fn
    /\ \A k \in DOMAIN r1 \ {key} : r2[k] = r1[k]

\* C12: a registration binds its key to its factory, replacing an entry
\* already present without error, and leaves the entry of every other key
\* unchanged; resolving a key invokes the factory bound to it, that is the one
\* registered last under it, with the caller's arguments and returns its result.
C12_LastRegistrationWins ==
    /\ [][op' = "register_datasource" =>
            /\ Rebound(DATA_SOURCES, DATA_SOURCES', args'.datasource_type, args'.fn)
            /\ DATA_CHECKS' = DATA_CHECKS
            /\ ~Raised(outcome')]_vars
    /\ [][op' = "register_datacheck" =>
            /\ Rebound(DATA_CHECKS, DATA_CHECKS', args'.check_name, args'.fn)
            /\ DATA_SOURCES' = DATA_SOURCES
            /\ ~Raised(outcome')]_vars
    /\ []((Done("get_datasource") /\ args.datasource_type \in DOMAIN DATA_SOURCES)
            => ResolvedDatasource)
    /\ []((Done("get_datacheck") /\ args.check_name \in DOMAIN DATA_CHECKS)
            => ResolvedDatacheck)

\* the built-in type resolves to the factory registered over it at run time
C12_Witness ==
    /\ Done("get_datasource")
    /\ args.datasource_type = "sqlalchemy"
    /\ DATA_SOURCES["sqlalchemy"] = "test_base_datasource"
    /\ DATA_SOURCES["bigquery"] = "get_bigquery_datasource"
    /\ outcome.kind = "return"
    /\ outcome.value.class = "BaseDatasource"

\* C13: for every key of DATA_CHECKS as the loaded module leaves it,
\* get_datacheck(key) returns a new check whose name equals that key.
C13_NameEqualsKey ==
    (Done("get_datacheck") /\ DATA_CHECKS = LoadedDataChecks
        /\ args.check_name \in DOMAIN LoadedDataChecks)
    => (outcome.kind = "return" /\ outcome.value.name = args.check_name)

(***************************************************************************)
(* Properties of the SQLAlchemyDatasource operations, under SpecDatasource.*)
(***************************************************************************)
DatasourceOpDone == pc = "done" /\ op \in DatasourceOps

ColumnOps == {"get_non_null_value_count", "get_unique_values", "get_unique_value_count"}

\* s is None, empty or whitespace-only
BlankArg(s) == s = NONE \/ \A i \in 1..Len(s) : s[i] \in {" ", "\t"}

NoBackendIO ==
    \A i \in 1..Len(events) : events[i].call \notin {"engine.connect", "read_sql"}

\* C14: every SQLAlchemyDatasource operation raises ValueError without opening
\* a connection or sending SQL when table_name and query are both None, empty
\* or whitespace-only; the three operations on a column do so too when
\* column_name is None, empty or whitespace-only.
C14_PreconditionsBeforeIO ==
    DatasourceOpDone =>
        /\ (BlankArg(args.table_name) /\ BlankArg(args.query))
              => (RaisedWith("ValueError") /\ NoBackendIO)
        /\ (op \in ColumnOps /\ BlankArg(args.column_name))
              => (RaisedWith("ValueError") /\ NoBackendIO)

\* a whitespace-only column_name is refused although the table is known
C14_Witness ==
    /\ Done("get_unique_value_count")
    /\ args.table_name = KnownTable
    /\ args.column_name = <<" ">>
    /\ RaisedWith("ValueError")
    /\ outcome.msg = "column_name should not be None or empty"
    /\ NoBackendIO

\* the preconditions of the operation hold
PreconditionsHold ==
    /\ ~(BlankArg(args.table_name) /\ BlankArg(args.query))
    /\ op \in ColumnOps => ~BlankArg(args.column_name)

\* the table name when one is given, else the query as a derived table
ExpectedRef ==
    IF args.table_name # NONE /\ args.table_name # <<>> THEN args.table_name
    ELSE <<"(">> \o args.query \o <<")", " src">>

ExpectedStatement ==
    CASE op = "load_data" -> <<"SELECT * FROM ">> \o ExpectedRef
      [] op = "get_table_count" -> <<"SELECT COUNT(*) AS cnt FROM ">> \o ExpectedRef
      [] op = "get_non_null_value_count" ->
            <<"SELECT COUNT(*) AS cnt FROM ">> \o ExpectedRef \o <<" WHERE ">>
                \o args.column_name \o <<" IS NOT NULL">>
      [] op \in {"get_unique_values", "get_unique_value_count"} ->
            <<"SELECT DISTINCT ">> \o args.column_name \o <<" FROM ">> \o ExpectedRef

\* C15: an operation whose preconditions hold composes exactly one statement,
\* the one of its kind over <ref>, where <ref> is the table name when one is
\* given (the query is then ignored) and '(<query>) src' when only a query is.
C15_ComposedStatement ==
    (DatasourceOpDone /\ PreconditionsHold)
        => SentStatements(events) = <<ExpectedStatement>>

\* table name and query both given: the table name is used
C15_Witness ==
    /\ Done("get_non_null_value_count")
    /\ args.table_name = KnownTable
    /\ args.query = KnownQuery
    /\ SentStatements(events)
          = << <<"SELECT COUNT(*) AS cnt FROM ", "t", " WHERE ", "c", " IS NOT NULL">> >>

\* the backend executes the statement of the call
Executes ==
    /\ PreconditionsHold
    /\ ~backend.fail
    /\ ExpectedRef \in {KnownTable, <<"(">> \o KnownQuery \o <<")", " src">>}

\* C16: when the backend executes the statement and returns no rows the
\* operation returns a 'no data' value: load_data None, get_unique_values the
\* empty list, the three counts 0; get_unique_value_count calls
\* get_unique_values with its own arguments and returns the length of its list.
C16_NoData ==
    (DatasourceOpDone /\ Executes) =>
        /\ (op = "load_data" /\ (backend.norows \/ rows = <<>>))
              => (outcome.kind = "return" /\ outcome.none)
        /\ (op = "get_unique_values" /\ (backend.norows \/ rows = <<>>))
              => outcome = Return(<<>>)
        /\ (op \in {"get_table_count", "get_non_null_value_count",
                    "get_unique_value_count"} /\ (backend.norows \/ rows = <<>>))
              => outcome = Return(0)
        /\ op = "get_unique_value_count" =>
              /\ outcome = Return(IF backend.norows THEN 0
                                  ELSE Cardinality(SeqToSet(rows)))
              /\ Len(CallsOn("get_unique_values")) = 1
              /\ CallsOn("get_unique_values")[1].table_name = args.table_name
              /\ CallsOn("get_unique_values")[1].column_name = args.column_name
              /\ CallsOn("get_unique_values")[1].query = args.query

\* the backend hands back no rows for a count over a table that has rows
C16_Witness ==
    /\ Done("get_table_count")
    /\ Executes
    /\ backend.norows
    /\ rows # <<>>
    /\ outcome = Return(0)

\* C17: when the backend fails to execute the statement the operation raises
\* that error, returns no value in its place, sends the statement once only and
\* releases the connection it opened as on the success path.
C17_BackendErrorPropagates ==
    (DatasourceOpDone /\ PreconditionsHold) =>
        /\ ~Executes =>
              outcome = (IF backend.fail THEN ConnectionError ELSE SqlError)
        /\ Len(SentStatements(events)) = 1
        /\ Len(CallsOn("engine.connect")) = 1
        /\ Len(CallsOn("connection.close")) = 1
        /\ events[Len(events)].call = "connection.close"
        /\ events[Len(events) - 1].call = "read_sql"

\* the backend rejects a count over a table it does not hold
C17_Witness ==
    /\ Done("get_table_count")
    /\ args.table_name = UnknownTable
    /\ ~backend.fail
    /\ outcome = SqlError
    /\ Len(SentStatements(events)) = 1

(***************************************************************************)
(* Properties of the BigQuery table-name functions, under SpecBigQuery.    *)
(***************************************************************************)
\* the dot-separated parts of s, all of them
RECURSIVE Parts(_)
Parts(s) ==
    IF \E i \in 1..Len(s) : s[i] = "."
    THEN LET p == CHOOSE i \in 1..Len(s) : s[i] = "." /\ \A j \in 1..(i - 1) : s[j] # "."
         IN  <<SubSeq(s, 1, p - 1)>> \o Parts(SubSeq(s, p + 1, Len(s)))
    ELSE <<s>>

\* the parts of the table name of the call, its surrounding backticks stripped
NameParts == Parts(Strip(args.table_name, {Backtick}))

\* C18: split_bigquery_table_name raises ValueError on an empty or
\* whitespace-only name; otherwise it returns (project_id, dataset_id, part) of
\* the datasource for one part, (project_id, part0, part1) for two parts and
\* the three parts as they are for three, for every datasource, also one
\* whose connection string gave no dataset.
C18_SplitTableName ==
    Done("split_bigquery_table_name") =>
        IF BlankArg(args.table_name) THEN RaisedWith("ValueError")
        ELSE /\ Len(NameParts) = 1 =>
                   /\ outcome.kind = "return"
                   /\ outcome.value[1] = args.self.project_id
                   /\ outcome.value[2] = args.self.dataset_id
                   /\ outcome.value[3] = NameParts[1]
             /\ Len(NameParts) = 2 =>
                   outcome = Return(<<args.self.project_id, NameParts[1], NameParts[2]>>)
             /\ Len(NameParts) = 3 => outcome = Return(NameParts)

\* C19: split_bigquery_table_name raises ValueError on every name of more
\* than three dot-separated parts and returns no triple for it.
C19_TooManyParts ==
    (Done("split_bigquery_table_name") /\ ~BlankArg(args.table_name)
        /\ Len(NameParts) > 3)
    => RaisedWith("ValueError")

\* the id given in the call, or the datasource's own when it is omitted
IdOr(given, own) == IF given # NONE /\ given # <<>> THEN given ELSE own

\* C20: generate_bigquery_table_name raises ValueError on an empty or
\* whitespace-only table_id; otherwise it returns `P.D.table_id` between
\* backticks, P the project_id given or else the datasource's, D the
\* dataset_id given or else the datasource's, in all four combinations.
C20_GenerateTableName ==
    Done("generate_bigquery_table_name") =>
        IF BlankArg(args.table_id) THEN RaisedWith("ValueError")
        ELSE /\ outcome.kind = "return"
             /\ outcome.value =
                   <<Backtick>> \o IdOr(args.project_id, args.self.project_id) \o <<".">>
                       \o IdOr(args.dataset_id, args.self.dataset_id) \o <<".">>
                       \o args.table_id \o <<Backtick>>

\* a generate-and-split round trip, in either direction, has ended
RoundTripDone == Done("split_then_generate") \/ Done("generate_then_split")

\* what the round trip of the call has to end with
RoundTripResult ==
    IF op = "split_then_generate"
    THEN Return(QualifiedName(args.project_id, args.dataset_id, args.table_id))
    ELSE Return(<<args.project_id, args.dataset_id, args.table_id>>)

\* C21 as stated: for all non-empty p, d, t without dots or backticks,
\* generate on the triple split returns for `p.d.t` gives `p.d.t` again, and
\* split on the name generate returns for (t, d, p) gives (p, d, t).
C21_RoundTripAllIds == RoundTripDone => outcome = RoundTripResult

\* C21, amended: the round trip is exact, on every datasource, when t does
\* not consist of spaces only; when it does, generate_bigquery_table_name
\* refuses t and the round trip ends with ValueError in both directions.
C21_RoundTrip ==
    RoundTripDone =>
        IF \A i \in 1..Len(args.table_id) : args.table_id[i] = " "
        THEN outcome = TableIdEmpty
        ELSE outcome = RoundTripResult

C21_Witness ==
    /\ Done("split_then_generate")
    /\ args.self.dataset_id = NONE
    /\ args.table_id = <<"\t", "t">>
    /\ args.project_id # args.self.project_id
    /\ outcome = RoundTripResult

\* the table name of the call resolves to a triple of ids
Resolvable == ~Raised(split_bigquery_table_name(args.self, args.table_name))

\* C22: get_schema of a resolvable table name returns, without error, the
\* empty mapping when the information-schema query yields no rows, and the
\* mapping column name -> declared type when it yields rows.
C22_GetSchema ==
    (Done("get_schema") /\ Resolvable /\ ~backend.fail) =>
        /\ outcome.kind = "return"
        /\ DOMAIN outcome.value = {rows[i][1] : i \in 1..Len(rows)}
        /\ \A i \in 1..Len(rows) : outcome.value[rows[i][1]] = rows[i][2]

\* the dataset segment of the connection string of the call: what follows
\* "project/", and no segment when nothing follows
DatasetSegment ==
    IF Len(args.connection_string) > 3
    THEN SubSeq(args.connection_string, 4, Len(args.connection_string))
    ELSE NONE

\* C23: a BigQueryDatasource constructed from scheme://project[/dataset] has
\* the project segment as project_id and the dataset segment as dataset_id,
\* which is None when the string ends after the project or after "project/"
\* and a non-empty string otherwise; name, type "SQL" and connection_string
\* are the ones given.  No operation of the datasource assigns a field, so
\* the object an operation is called on is the constructed one.
C23_Constructed ==
    /\ Done("BigQueryDatasource") =>
          /\ outcome.kind = "return"
          /\ outcome.value.name = args.datasource_name
          /\ outcome.value.type = "SQL"
          /\ outcome.value.connection_string = args.connection_string
          /\ outcome.value.project_id = <<args.connection_string[2]>>
          /\ outcome.value.dataset_id = DatasetSegment
          /\ outcome.value.dataset_id # <<>>
    /\ (pc = "done" /\ op \in {"get_schema", "split_bigquery_table_name",
                                "generate_bigquery_table_name"}) =>
          Return(args.self) =
              BigQueryDatasource_init(args.self.name, args.self.connection_string)

(***************************************************************************)
(* Properties of the operations left to subclasses, under SpecAbstract.    *)
(***************************************************************************)
AbstractOps ==
    {"BaseDatasource.load_data", "BaseDatasource.get_schema",
     "BaseDatasource.get_table_count", "BaseDatasource.get_non_null_value_count",
     "BaseDatasource.get_unique_value_count", "SQLAlchemyDatasource.get_schema",
     "BaseCheck.run"}

\* C24: every capability of BaseDatasource, BaseCheck.run and
\* SQLAlchemyDatasource.get_schema raise NotImplementedError whatever the
\* arguments, omitted ones included; none returns a value, none does nothing,
\* and none reaches a backend.
C24_NotImplemented ==
    (pc = "done" /\ op \in AbstractOps) =>
        /\ outcome = NotImplemented
        /\ events = <<Step(op)>>

C24_Witness ==
    /\ Done("BaseDatasource.load_data")
    /\ args.table_name = NONE
    /\ RaisedWith("NotImplementedError")

(***************************************************************************)
(* Properties of the order of a check's steps, under Spec.                 *)
(***************************************************************************)
\* the checks that validate both configs
BothConfigChecks ==
    {"table_count_check", "check_column_value_belong_to_set",
     "check_column_value_to_be_in_range"}

\* the query_config has a key of every group the check of the call requires
QueryConfigOk == IF op = "table_count_check" THEN ValidQuery ELSE ValidColumnQuery

\* the check_config has the key the check of the call requires
CheckConfigOk ==
    HasKey(check_config,
           CASE op = "table_count_check" -> "count"
             [] op = "check_column_value_belong_to_set" -> "column_value_set"
             [] OTHER -> "column_value_range")

\* C25: a check that validates both configs validates query_config first:
\* with both configs invalid run raises InvalidQueryConfigException, and
\* InvalidCheckConfigException is raised only when query_config is valid.
C25_QueryConfigFirst ==
    (pc = "done" /\ op \in BothConfigChecks) =>
        /\ (~QueryConfigOk /\ ~CheckConfigOk) => RaisedWith("InvalidQueryConfigException")
        /\ RaisedWith("InvalidCheckConfigException") => QueryConfigOk
        /\ \A i, j \in 1..Len(events) :
              (events[i].call = "validate_query_config"
                 /\ events[j].call = "validate_check_config") => i < j

C25_Witness ==
    /\ Done("check_column_value_belong_to_set")
    /\ ~QueryConfigOk
    /\ ~CheckConfigOk
    /\ RaisedWith("InvalidQueryConfigException")

\* the derived table the datasource composes for the query of the query_config
DerivedTable == <<"(">> \o query_config["query"] \o <<")", " src">>

\* stmt references ref: ref is a run of consecutive tokens of stmt
References(stmt, ref) ==
    \E i \in 1..(Len(stmt) - Len(ref) + 1) : SubSeq(stmt, i, i + Len(ref) - 1) = ref

\* C26: when a check runs on a query_config with 'query' and no
\* 'table_name', every statement that reaches the backend references the
\* query as the derived table (<query>) src, as a direct call of the
\* datasource operation with query=<query> does.
C26_DerivedTable ==
    (/\ pc = "done"
     /\ op \in {"empty_table_check", "table_count_check", "unique_column_value_check",
                 "check_column_value_belong_to_set"}
     /\ HasKey(query_config, "query")
     /\ ~HasKey(query_config, "table_name"))
    => \A i \in 1..Len(SentStatements(events)) :
          References(SentStatements(events)[i], DerivedTable)

\* the steps run itself performs, in order: the calls of the validators, of
\* extract_table_name and of the datasource; the get_unique_values that
\* get_unique_value_count makes on its own behalf is not a step of run
RECURSIVE RunSteps(_, _)
RunSteps(evs, prev) ==
    IF evs = <<>> THEN <<>>
    ELSE LET c == Head(evs).call
             own == /\ c \in DatasourceOps \cup {"validate_query_config",
                                   "validate_check_config", "extract_table_name"}
                    /\ ~(c = "get_unique_values" /\ prev = "get_unique_value_count")
         IN  (IF own THEN <<c>> ELSE <<>>) \o RunSteps(Tail(evs), c)

\* the steps of a run that returns
StepsOf ==
    [empty_table_check |->
        <<"validate_query_config", "extract_table_name", "get_table_count">>,
     table_count_check |->
        <<"validate_query_config", "validate_check_config", "extract_table_name",
          "get_table_count">>,
     unique_column_value_check |->
        <<"validate_query_config", "extract_table_name", "get_unique_value_count",
          "get_table_count">>,
     check_column_value_belong_to_set |->
        <<"validate_query_config", "validate_check_config", "extract_table_name",
          "get_unique_values">>,
     check_column_value_to_be_in_range |->
        <<"validate_query_config", "validate_check_config", "extract_table_name",
          "load_data", "load_data", "get_table_count">>]

IsPrefix(s, t) == Len(s) <= Len(t) /\ SubSeq(t, 1, Len(s)) = s

\* C27: run performs query-config validation, check-config validation where
\* required, table-reference extraction and then its datasource operations
\* in one fixed order, all of them before it returns; the range check loads
\* min/max first and the matching count second; when the backend fails a
\* statement, run raises that error at once, sends no later statement,
\* repeats none and returns no result.
C27_StepOrder ==
    (pc = "done" /\ op \in Checks) =>
        LET steps == RunSteps(events, "none")
            sent == SentStatements(events)
            loads == CallsOn("load_data")
        IN  /\ IsPrefix(steps, StepsOf[op])
            /\ outcome.kind = "return" => steps = StepsOf[op]
            /\ Len(loads) >= 1 => loads[1].query[1] = "SELECT MIN("
            /\ Len(loads) >= 2 =>
                  loads[2].query[1] = "SELECT COUNT(1) AS matching_record_count FROM "
            /\ Len(sent) <= Len(SelectSeq(steps, LAMBDA c : c \in DatasourceOps))
            /\ (backend.failAt >= 1 /\ Len(sent) >= backend.failAt) =>
                  /\ outcome = ConnectionError
                  /\ Len(sent) = backend.failAt
                  /\ events[Len(events)].call = "connection.close"
                  /\ events[Len(events) - 1].call = "read_sql"

\* the second statement of the range check fails
C27_Witness ==
    /\ Done("check_column_value_to_be_in_range")
    /\ backend.failAt = 2
    /\ outcome = ConnectionError
    /\ RunSteps(events, "none") = SubSeq(StepsOf[op], 1, 5)

\* validate_query_config accepts the query_config for the check of the call
QueryConfigAccepted ==
    IF op \in {"empty_table_check", "table_count_check"} THEN ValidQuery
    ELSE ValidColumnQuery

\* C28: for every check and every query_config that validate_query_config
\* accepts with the check's groups, whatever strings its values are, no
\* datasource operation invoked by run fails its precondition check with
\* ValueError, and a query given next to an unusable table_name is the one
\* the statements use.
C28_ValidationComplete ==
    (pc = "done" /\ op \in Checks /\ QueryConfigAccepted) =>
        /\ ~RaisedWith("ValueError")
        /\ (HasKey(query_config, "query") /\ HasKey(query_config, "table_name")
                /\ IsBlank(query_config["table_name"])) =>
              /\ SentStatements(events) # <<>>
              /\ \A i \in 1..Len(SentStatements(events)) :
                    References(SentStatements(events)[i], query_config["query"])

(***************************************************************************)
(* The FROM reference of a datasource operation, under SpecDatasource.     *)
(***************************************************************************)
\* the statement of the operation of the call over the reference ref
StatementOver(ref) ==
    CASE op = "load_data" -> <<"SELECT * FROM ">> \o ref
      [] op = "get_table_count" -> <<"SELECT COUNT(*) AS cnt FROM ">> \o ref
      [] op = "get_non_null_value_count" ->
            <<"SELECT COUNT(*) AS cnt FROM ">> \o ref \o <<" WHERE ">>
                \o args.column_name \o <<" IS NOT NULL">>
      [] OTHER -> <<"SELECT DISTINCT ">> \o args.column_name \o <<" FROM ">> \o ref

\* the references a statement may use: the table name when it is not blank,
\* the derived table of the query when the query is not blank
UsableRefs ==
    (IF BlankArg(args.table_name) THEN {} ELSE {args.table_name})
        \cup (IF BlankArg(args.query) THEN {}
              ELSE {<<"(">> \o args.query \o <<")", " src">>})

\* C29: no operation sends the backend a statement whose FROM reference is
\* empty or whitespace-only: every statement sent is over a non-blank table
\* name or over (<query>) src with a non-blank query, also when a
\* whitespace-only table_name is given together with a non-blank query.
C29_NoBlankRef ==
    DatasourceOpDone =>
        \A i \in 1..Len(SentStatements(events)) :
            \E ref \in UsableRefs : SentStatements(events)[i] = StatementOver(ref)

\* C30: CheckColumnValueToBeInRange.run on a check_config whose
\* 'column_value_range' lacks 'min' or 'max' fails before any datasource
\* operation is invoked and before any statement is sent.  The query_config
\* is usable, the table has rows and the backend fails no statement, so that
\* the check_config is the only reason for run to fail.
C30_RangeFailsBeforeIO ==
    (/\ Done("check_column_value_to_be_in_range")
     /\ ValidColumnQuery
     /\ TableRef \in {KnownTable, <<"(">> \o KnownQuery \o <<")">>}
     /\ rows # <<>>
     /\ backend.failAt = 0
     /\ HasKey(check_config, "column_value_range")
     /\ {"min", "max"} \ DOMAIN check_config["column_value_range"] # {})
    => (outcome.kind = "raise" /\ NoBackendUse)

====
